---- MODULE Spec2Model ----
(***************************************************************************)
(* A model of the MCP dispatch layer of gsc-mcp-cloud: the tool registry,  *)
(* the zod argument validation, SSEStdioHandler.processMessage (the        *)
(* dispatcher) and SSEStdioHandler.handleSSE (the one-shot SSE transport). *)
(***************************************************************************)
EXTENDS Integers, Sequences, FiniteSets, TLC

(***************************************************************************)
(* JavaScript values.  Every value is a record of one shape so that values *)
(* of different JavaScript types can be compared.                          *)
(***************************************************************************)
U == [t |-> "undefined", n |-> 0, s |-> ""]
Null == [t |-> "null", n |-> 0, s |-> ""]
S(x) == [t |-> "string", n |-> 0, s |-> x]
N(k) == [t |-> "number", n |-> k, s |-> ""]

\* `${v}` and String(v): the text a template literal produces for a value.
ToStr(v) ==
  CASE v.t = "undefined" -> "undefined"
    [] v.t = "null" -> "null"
    [] v.t = "number" -> ToString(v.n)
    [] OTHER -> v.s

\* The object {} : no own properties.
EmptyObject == [k \in {} |-> U]

(***************************************************************************)
(* Bounds of the model.                                                    *)
(***************************************************************************)
\* the largest number of properties in a tools/call arguments object
MaxArgKeys == 2

(***************************************************************************)
(* zod schemas.  A field records the outermost zod class (typeName), the   *)
(* innermost primitive type, the wrapper (.optional() / .default(v)), the  *)
(* checks of the inner type and the enum values.                           *)
(***************************************************************************)
DefaultDays == 28
MinDays == 1
MaxDays == 540
DefaultLimit == 10
MinLimit == 1
MaxLimit == 1000
DefaultRowLimit == 100
DefaultStartRow == 0

ZString(key, checks) ==
  [key |-> key, typeName |-> "ZodString", inner |-> "string", wrap |-> "none",
   def |-> U, checks |-> checks, values |-> <<>>]
ZNumber(key, checks) ==
  [key |-> key, typeName |-> "ZodNumber", inner |-> "number", wrap |-> "none",
   def |-> U, checks |-> checks, values |-> <<>>]
ZEnum(key, values) ==
  [key |-> key, typeName |-> "ZodEnum", inner |-> "enum", wrap |-> "none",
   def |-> U, checks |-> <<>>, values |-> values]
\* .refine(fn): the field becomes a ZodEffects around the inner type
ZRefine(f, check) ==
  [f EXCEPT !.typeName = "ZodEffects", !.checks = Append(f.checks, check)]
\* .default(v)
ZDefault(f, v) == [f EXCEPT !.typeName = "ZodDefault", !.wrap = "default", !.def = v]
\* .optional()
ZOptional(f) == [f EXCEPT !.typeName = "ZodOptional", !.wrap = "optional"]

SiteUrl == ZString("site_url", <<"min1">>)
PlainSiteUrl == ZString("site_url", <<>>)
Days == ZDefault(ZNumber("days", <<"daysMin", "daysMax">>), N(DefaultDays))

searchTool == [name |-> "search", schema |-> <<ZString("query", <<>>)>>]
fetchTool == [name |-> "fetch", schema |-> <<ZString("id", <<>>)>>]
listPropertiesTool == [name |-> "list_properties", schema |-> <<>>]
addSiteTool ==
  [name |-> "add_site", schema |-> <<ZRefine(SiteUrl, "sitePrefix")>>]
deleteSiteTool == [name |-> "delete_site", schema |-> <<SiteUrl>>]
getSiteDetailsTool == [name |-> "get_site_details", schema |-> <<SiteUrl>>]
getSearchAnalyticsTool ==
  [name |-> "get_search_analytics",
   schema |-> <<SiteUrl, Days,
                ZDefault(ZString("dimensions", <<"dimensionsRegex">>), S("query"))>>]
getPerformanceOverviewTool ==
  [name |-> "get_performance_overview", schema |-> <<SiteUrl, Days>>]
getAdvancedSearchAnalyticsTool ==
  [name |-> "get_advanced_search_analytics",
   schema |-> <<PlainSiteUrl,
                ZOptional(ZString("start_date", <<>>)),
                ZOptional(ZString("end_date", <<>>)),
                ZDefault(ZString("dimensions", <<>>), S("query")),
                ZDefault(ZEnum("search_type", <<"WEB", "IMAGE", "VIDEO", "NEWS", "DISCOVER">>), S("WEB")),
                ZDefault(ZNumber("row_limit", <<>>), N(DefaultRowLimit)),
                ZDefault(ZNumber("start_row", <<>>), N(DefaultStartRow)),
                ZDefault(ZEnum("sort_by", <<"clicks", "impressions", "ctr", "position">>), S("clicks")),
                ZDefault(ZEnum("sort_direction", <<"ascending", "descending">>), S("descending")),
                ZOptional(ZString("filter_dimension", <<>>)),
                ZDefault(ZEnum("filter_operator", <<"contains", "equals", "notContains", "notEquals">>), S("contains")),
                ZOptional(ZString("filter_expression", <<>>))>>]
compareSearchPeriodsTool ==
  [name |-> "compare_search_periods",
   schema |-> <<SiteUrl,
                ZString("period1_start", <<"dateRegex">>),
                ZString("period1_end", <<"dateRegex">>),
                ZString("period2_start", <<"dateRegex">>),
                ZString("period2_end", <<"dateRegex">>),
                ZDefault(ZString("dimensions", <<>>), S("query")),
                ZDefault(ZNumber("limit", <<"limitMin", "limitMax">>), N(DefaultLimit))>>]
getSearchByPageQueryTool ==
  [name |-> "get_search_by_page_query",
   schema |-> <<SiteUrl, ZString("page_url", <<"min1", "url">>), Days>>]
inspectUrlEnhancedTool ==
  [name |-> "inspect_url_enhanced",
   schema |-> <<PlainSiteUrl, ZString("page_url", <<>>)>>]
batchUrlInspectionTool ==
  [name |-> "batch_url_inspection",
   schema |-> <<PlainSiteUrl, ZString("urls", <<>>)>>]
checkIndexingIssuesTool ==
  [name |-> "check_indexing_issues",
   schema |-> <<PlainSiteUrl, ZString("urls", <<>>)>>]
getSitemapsTool == [name |-> "get_sitemaps", schema |-> <<PlainSiteUrl>>]
submitSitemapTool ==
  [name |-> "submit_sitemap",
   schema |-> <<PlainSiteUrl, ZString("sitemap_url", <<>>)>>]
listSitemapsEnhancedTool ==
  [name |-> "list_sitemaps_enhanced",
   schema |-> <<PlainSiteUrl, ZOptional(ZString("sitemap_index", <<>>))>>]
getSitemapDetailsTool ==
  [name |-> "get_sitemap_details",
   schema |-> <<PlainSiteUrl, ZString("sitemap_url", <<>>)>>]
deleteSitemapTool ==
  [name |-> "delete_sitemap",
   schema |-> <<PlainSiteUrl, ZString("sitemap_url", <<>>)>>]

\* The registry array, in source order: search and fetch first.
toolRegistry ==
  <<searchTool, fetchTool,
    listPropertiesTool, addSiteTool, deleteSiteTool, getSiteDetailsTool,
    getSearchAnalyticsTool, getPerformanceOverviewTool,
    getAdvancedSearchAnalyticsTool, compareSearchPeriodsTool,
    getSearchByPageQueryTool,
    inspectUrlEnhancedTool, batchUrlInspectionTool, checkIndexingIssuesTool,
    getSitemapsTool, submitSitemapTool, listSitemapsEnhancedTool,
    getSitemapDetailsTool, deleteSitemapTool>>

(***************************************************************************)
(* SSEStdioHandler.init: this.tools is a Map filled by tools.set(name, ..) *)
(* for each descriptor of the registry array.  A Map keeps insertion order *)
(* and set() on a key that is present replaces the value in place.  An     *)
(* entry holds a reference to the descriptor object: its index in the      *)
(* registry array.                                                         *)
(***************************************************************************)
Deref(ref) == toolRegistry[ref]
MapHas(m, name) == \E i \in 1..Len(m) : m[i].name = name
MapIndex(m, name) == CHOOSE i \in 1..Len(m) : m[i].name = name
\* MapSet that puts a new key in front of the others (unshift, not push)
MapSetFront(m, name, definition) ==
  IF MapHas(m, name)
    THEN [m EXCEPT ![MapIndex(m, name)] = [name |-> name, definition |-> definition]]
    ELSE <<[name |-> name, definition |-> definition]>> \o m
\* Map.prototype.set
MapSet(m, name, definition) ==
  IF MapHas(m, name)
    THEN [m EXCEPT ![MapIndex(m, name)] = [name |-> name, definition |-> definition]]
    ELSE Append(m, [name |-> name, definition |-> definition])

RECURSIVE RegisterAll(_, _, _)
RegisterAll(registry, i, m) ==
  IF i > Len(registry) THEN m
  ELSE RegisterAll(registry, i + 1, MapSet(m, registry[i].name, i))

init(registry) == RegisterAll(registry, 1, <<>>)

\* this.tools.get(toolName): keys are strings, so only a string can match.
ToolsHas(m, toolName) == toolName.t = "string" /\ MapHas(m, toolName.s)
ToolsGet(m, toolName) == Deref(m[MapIndex(m, toolName.s)].definition)

(***************************************************************************)
(* Errors.  A thrown value is an Error object (kind "object", with name    *)
(* and message), a string, or null.  A message is a sequence of text       *)
(* pieces, <<>> being the empty string; name "" and message <<>> also      *)
(* stand for the undefined that reading .name or .message of a string      *)
(* gives.                                                                  *)
(***************************************************************************)
Error(name, message) ==
  [kind |-> "object", name |-> name, message |-> message, text |-> ""]
ThrownString(text) ==
  [kind |-> "string", name |-> "", message |-> <<>>, text |-> text]
ThrownNull == [kind |-> "null", name |-> "", message |-> <<>>, text |-> ""]
NoException == [kind |-> "none", name |-> "", message |-> <<>>, text |-> ""]

(***************************************************************************)
(* schema.parse(toolArgs) of zod 3 for z.object({...}): strict primitive   *)
(* types, defaults applied to absent keys before the checks, absent        *)
(* optional keys omitted, undeclared keys stripped from the output, and    *)
(* one ZodError listing every issue.                                       *)
(***************************************************************************)
\* The strings of the model that match the patterns of the schemas.
DimensionsStrings == {"query", "page", "device", "country", "date", "query,page"}
DateStrings == {"2024-01-01"}
UrlStrings == {"https://a.com"}
SitePrefixStrings == {"https://a.com", "sc-domain:a.com"}

CheckOk(check, v) ==
  CASE check = "min1" -> Len(v.s) >= 1
    [] check = "daysMin" -> v.n >= MinDays
    [] check = "daysMax" -> v.n <= MaxDays
    [] check = "limitMin" -> v.n >= MinLimit
    [] check = "limitMax" -> v.n <= MaxLimit
    [] check = "dimensionsRegex" -> v.s \in DimensionsStrings
    [] check = "dateRegex" -> v.s \in DateStrings
    [] check = "url" -> v.s \in UrlStrings
    [] check = "sitePrefix" -> v.s \in SitePrefixStrings
    [] OTHER -> TRUE

CheckCode(check) ==
  CASE check \in {"min1", "daysMin", "limitMin"} -> "too_small"
    [] check \in {"daysMax", "limitMax"} -> "too_big"
    [] check \in {"dimensionsRegex", "dateRegex", "url"} -> "invalid_string"
    [] OTHER -> "custom"

SeqToSet(q) == {q[i] : i \in 1..Len(q)}

\* the issue of the primitive type test, "" when the value has the type
TypeIssue(f, v) ==
  CASE f.inner = "string" -> IF v.t = "string" THEN "" ELSE "invalid_type"
    [] f.inner = "number" -> IF v.t = "number" THEN "" ELSE "invalid_type"
    [] OTHER -> IF v.t # "string" THEN "invalid_type"
                ELSE IF v.s \in SeqToSet(f.values) THEN "" ELSE "invalid_enum_value"

RECURSIVE CheckIssues(_, _, _, _)
CheckIssues(checks, i, key, v) ==
  IF i > Len(checks) THEN <<>>
  ELSE (IF CheckOk(checks[i], v) THEN <<>> ELSE <<CheckCode(checks[i]), key>>)
       \o CheckIssues(checks, i + 1, key, v)

\* ParseField with z.coerce.number(): a string of digits is converted to the
\* number it spells before the type test
ParseFieldCoerce(f, input) ==
  LET raw == IF f.key \in DOMAIN input THEN input[f.key] ELSE U
      given == IF f.inner = "number" /\ raw = S("7") THEN N(7) ELSE raw
      v == IF f.wrap = "default" /\ given = U THEN f.def ELSE given
  IN  IF f.wrap = "optional" /\ given = U
        THEN [issues |-> <<>>, has |-> FALSE, value |-> U]
      ELSE IF TypeIssue(f, v) # ""
        THEN [issues |-> <<TypeIssue(f, v), f.key>>, has |-> FALSE, value |-> U]
      ELSE [issues |-> CheckIssues(f.checks, 1, f.key, v), has |-> TRUE, value |-> v]

\* One field of the shape against the input object: the issues it raises,
\* whether the key is set in the output, and the output value.
ParseField(f, input) ==
  LET raw == IF f.key \in DOMAIN input THEN input[f.key] ELSE U
      v == IF f.wrap = "default" /\ raw = U THEN f.def ELSE raw
  IN  IF f.wrap = "optional" /\ raw = U
        THEN [issues |-> <<>>, has |-> FALSE, value |-> U]
      ELSE IF TypeIssue(f, v) # ""
        THEN [issues |-> <<TypeIssue(f, v), f.key>>, has |-> FALSE, value |-> U]
      ELSE [issues |-> CheckIssues(f.checks, 1, f.key, v), has |-> TRUE, value |-> v]

RECURSIVE ShapeIssues(_, _, _)
ShapeIssues(schema, i, input) ==
  IF i > Len(schema) THEN <<>>
  ELSE ParseField(schema[i], input).issues \o ShapeIssues(schema, i + 1, input)

\* ParsedObject that returns the declared keys as they were sent, without
\* the defaults
ParsedObjectRaw(schema, input) ==
  LET keys == {schema[i].key : i \in 1..Len(schema)} \cap DOMAIN input
  IN  [k \in keys |-> input[k]]

\* The parsed object: the declared keys that are set, nothing else.
ParsedObject(schema, input) ==
  LET fields == {i \in 1..Len(schema) : ParseField(schema[i], input).has}
      keys == {schema[i].key : i \in fields}
      fieldOf(k) == CHOOSE i \in fields : schema[i].key = k
  IN  [k \in keys |-> ParseField(schema[fieldOf(k)], input).value]

\* schema.parse(toolArgs): toolArgs is [t, o], o holding the own properties
\* when t = "object".  Returns the value or the ZodError that is thrown.
SchemaParse(schema, toolArgs) ==
  IF toolArgs.t # "object"
    THEN [ok |-> FALSE, value |-> EmptyObject,
          error |-> Error("ZodError", <<"invalid_type", "">>)]
  ELSE LET issues == ShapeIssues(schema, 1, toolArgs.o)
       IN  IF issues = <<>>
             THEN [ok |-> TRUE, value |-> ParsedObject(schema, toolArgs.o),
                   error |-> NoException]
             ELSE [ok |-> FALSE, value |-> EmptyObject,
                   error |-> Error("ZodError", issues)]

(***************************************************************************)
(* Schema introspection for tools/list.  The description texts of the      *)
(* descriptors and parameters are copied verbatim by the code and are not  *)
(* part of the model.                                                      *)
(***************************************************************************)
getZodType(zodType) ==
  CASE zodType.typeName = "ZodString" -> "string"
    [] zodType.typeName = "ZodNumber" -> "number"
    [] zodType.typeName = "ZodBoolean" -> "boolean"
    [] zodType.typeName = "ZodArray" -> "array"
    [] zodType.typeName = "ZodObject" -> "object"
    [] OTHER -> "string"

\* _def.values is set on a ZodEnum only (not on a wrapper around it)
schemaToProperties(schema) ==
  [i \in 1..Len(schema) |->
     [key |-> schema[i].key,
      type |-> getZodType(schema[i]),
      enum |-> IF schema[i].typeName = "ZodEnum" THEN schema[i].values ELSE <<>>]]

\* isOptional that is true of a .optional() wrapper only
isOptionalWrapperOnly(zodType) == zodType.typeName = "ZodOptional"
\* zodType.isOptional() is this.safeParse(undefined).success: the type
\* accepts undefined
isOptional(zodType) == ParseField(zodType, EmptyObject).issues = <<>>

getRequiredFields(schema) ==
  LET required == SelectSeq(schema, LAMBDA f : ~isOptional(f))
  IN  [i \in 1..Len(required) |-> required[i].key]

(***************************************************************************)
(* Messages, responses and events.                                         *)
(***************************************************************************)
InternalErrorCode == -32603
ListMessageId == 1

UndefArgs == [t |-> "undefined", o |-> EmptyObject]
NoParams == [t |-> "undefined", name |-> U, arguments |-> UndefArgs]
Params(name, arguments) == [t |-> "object", name |-> name, arguments |-> arguments]
\* a parsed JSON body: an object, the literal null, or another primitive
Message(id, method, params) ==
  [t |-> "object", id |-> id, method |-> method, params |-> params]
NullMessage == [t |-> "null", id |-> U, method |-> U, params |-> NoParams]
PrimitiveMessage == [t |-> "primitive", id |-> U, method |-> U, params |-> NoParams]
NoMessage == [t |-> "none", id |-> U, method |-> U, params |-> NoParams]

NoResult ==
  [kind |-> "undefined", protocolVersion |-> "", serverInfo |-> <<>>,
   tools |-> <<>>, content |-> <<>>]
InitializeResult ==
  [kind |-> "initialize", protocolVersion |-> "2024-11-05",
   serverInfo |-> <<"gsc-mcp-cloud", "1.0.0">>, tools |-> <<>>, content |-> <<>>]
ToolsListResult(m) ==
  [kind |-> "tools", protocolVersion |-> "", serverInfo |-> <<>>,
   tools |-> [i \in 1..Len(m) |->
                [name |-> Deref(m[i].definition).name,
                 inputSchema |->
                   [type |-> "object",
                    properties |-> schemaToProperties(Deref(m[i].definition).schema),
                    required |-> getRequiredFields(Deref(m[i].definition).schema)]]],
   content |-> <<>>]
\* a ToolResult returned by execute: { content: [...] }
ToolResult(content) ==
  [kind |-> "toolResult", protocolVersion |-> "", serverInfo |-> <<>>,
   tools |-> <<>>, content |-> content]

NoError == [set |-> FALSE, code |-> 0, message |-> <<>>, type |-> "", details |-> <<>>]

\* const response = { jsonrpc: "2.0", id: message.id }
NewResponse(message) ==
  [jsonrpc |-> "2.0", id |-> message.id, result |-> NoResult, error |-> NoError]
NoResponse == [jsonrpc |-> "", id |-> U, result |-> NoResult, error |-> NoError]

\* error.toString() of an Error object or of a string
ErrorToString(exc) ==
  IF exc.kind = "string" THEN <<exc.text>>
  ELSE IF exc.message = <<>> THEN <<exc.name>>
  ELSE <<exc.name, ": ">> \o exc.message

\* { code: -32603, message: error.message || "Internal error",
\*   data: { type: error.name || "Error", details: error.toString() } }
\* (data.stack is runtime text and is left out)
ErrorEnvelope(exc) ==
  [set |-> TRUE, code |-> InternalErrorCode,
   message |-> IF exc.message # <<>> THEN exc.message ELSE <<"Internal error">>,
   type |-> IF exc.name # "" THEN exc.name ELSE "Error",
   details |-> ErrorToString(exc)]

\* Catch with only `error instanceof Error` handled: any other thrown value
\* is dropped and the response is left without result and without error.
CatchErrorsOnly(response, exc) ==
  IF exc.kind = "object"
    THEN [response |-> [response EXCEPT !.error = ErrorEnvelope(exc)],
          thrown |-> NoException]
    ELSE [response |-> response, thrown |-> NoException]

\* The catch block of processMessage.  Reading error.message of a thrown
\* null or undefined raises a TypeError inside the catch block, which
\* leaves processMessage.
Catch(response, exc) ==
  IF exc.kind # "null"
    THEN [response |-> [response EXCEPT !.error = ErrorEnvelope(exc)],
          thrown |-> NoException]
    ELSE [response |-> response,
          thrown |-> Error("TypeError", <<"Cannot read properties of null (reading 'message')">>)]

\* JSON.stringify(response): a property whose value is undefined is left out
Serialize(response) ==
  [jsonrpc |-> response.jsonrpc,
   hasId |-> response.id.t # "undefined", id |-> response.id,
   hasResult |-> response.result.kind # "undefined", result |-> response.result,
   hasError |-> response.error.set, error |-> response.error]

\* the event written by the catch block of handleSSE: no id, no result
TransportError(exc) ==
  [jsonrpc |-> "2.0", hasId |-> FALSE, id |-> U,
   hasResult |-> FALSE, result |-> NoResult,
   hasError |-> TRUE, error |-> ErrorEnvelope(exc)]

NoPayload ==
  [jsonrpc |-> "", hasId |-> FALSE, id |-> U, hasResult |-> FALSE,
   result |-> NoResult, hasError |-> FALSE, error |-> NoError]
\* ": connection established\n\n"
KeepAliveEvent == [kind |-> "comment", payload |-> NoPayload]
\* "data: <json>\n\n"
DataEvent(payload) == [kind |-> "data", payload |-> payload]

(***************************************************************************)
(* processMessage up to its first await: the switch on message.method and, *)
(* for tools/call, lookup, validation and the call of execute.             *)
(***************************************************************************)
\* message.params?.arguments || {}
ArgsOrEmpty(arguments) ==
  IF arguments.t \in {"undefined", "null"}
    THEN [t |-> "object", o |-> EmptyObject]
    ELSE arguments

\* Execute with the raw call repeated (a retry that always fires)
ExecuteTwice(definition, env, args) ==
  <<[tool |-> definition.name, params |-> [env |-> env], args |-> args],
    [tool |-> definition.name, params |-> [env |-> env], args |-> args]>>

\* the closure stored by init: (args) => tool.execute({ env }, args)
Execute(definition, env, args) ==
  <<[tool |-> definition.name, params |-> [env |-> env], args |-> args]>>

\* ToolNotFound with the name left out of the message
ToolNotFoundUnnamed(toolName) == Error("Error", <<"Tool not found">>)
\* throw new Error(`Tool not found: ${toolName}`)
ToolNotFound(toolName) == Error("Error", <<"Tool not found: ", ToStr(toolName)>>)
\* UnknownMethod with the method left out of the message
UnknownMethodUnnamed(method) == Error("Error", <<"Unknown method">>)
\* throw new Error(`Unknown method: ${message.method}`)
UnknownMethod(method) == Error("Error", <<"Unknown method: ", ToStr(method)>>)

\* The outcome of the switch: the result that is set, the exception that is
\* thrown inside the try, or the execute calls that are awaited.
Route(m, env, message) ==
  LET toolName == message.params.name
      toolArgs == ArgsOrEmpty(message.params.arguments)
      parsed == SchemaParse(ToolsGet(m, toolName).schema, toolArgs)
  IN  CASE message.method = S("initialize") ->
             [result |-> InitializeResult, exc |-> NoException, calls |-> <<>>]
        [] message.method = S("tools/list") ->
             [result |-> ToolsListResult(m), exc |-> NoException, calls |-> <<>>]
        [] message.method = S("tools/call") ->
             IF ~ToolsHas(m, toolName)
               THEN [result |-> NoResult, exc |-> ToolNotFound(toolName),
                     calls |-> <<>>]
             ELSE IF ~parsed.ok
               THEN [result |-> NoResult, exc |-> parsed.error, calls |-> <<>>]
             ELSE [result |-> NoResult, exc |-> NoException,
                   calls |-> Execute(ToolsGet(m, toolName), env, parsed.value)]
        [] OTHER ->
             [result |-> NoResult, exc |-> UnknownMethod(message.method),
              calls |-> <<>>]

(***************************************************************************)
(* Inputs of the model.                                                    *)
(***************************************************************************)
Envs == {"envA", "envB"}
Ids == {U, N(7), S("a")}
Methods == {U, S("initialize"), S("tools/list"), S("tools/call"), S("bogus")}
ToolNames == {U, S("search"), S("get_search_analytics"), S("list_properties"), S("nope")}
ArgKeys == {"query", "site_url", "days"}
ArgVals == {S("https://a.com"), S(""), S("7"), N(7), N(0)}
ArgObjects ==
  UNION {[d -> ArgVals] : d \in {k \in SUBSET ArgKeys : Cardinality(k) <= MaxArgKeys}}
Arguments ==
  {UndefArgs, [t |-> "null", o |-> EmptyObject], [t |-> "string", o |-> EmptyObject]}
  \cup {[t |-> "object", o |-> o] : o \in ArgObjects}
ParamsSet == {NoParams} \cup {Params(name, a) : name \in ToolNames, a \in Arguments}
Messages ==
  {Message(id, method, NoParams) : id \in Ids, method \in Methods \ {S("tools/call")}}
  \cup {Message(id, S("tools/call"), p) : id \in Ids, p \in ParamsSet}
  \cup {NullMessage, PrimitiveMessage}

\* the body of the HTTP request: absent, text that is not JSON, or JSON text
NoBody == [kind |-> "none", json |-> NoMessage]
MalformedBody == [kind |-> "malformed", json |-> NoMessage]
JsonBody(msg) == [kind |-> "json", json |-> msg]
\* OPTIONS is answered by its own route and never reaches handleSSE
Requests ==
  {[method |-> "POST", body |-> b] :
     b \in {NoBody, MalformedBody} \cup {JsonBody(msg) : msg \in Messages}}
  \cup {[method |-> hm, body |-> b] :
          hm \in {"GET", "PUT"},
          b \in {NoBody, MalformedBody,
                 JsonBody(Message(N(7), S("initialize"), NoParams))}}
NoRequest == [method |-> "", body |-> NoBody]

\* what the awaited execute call can do: return a ToolResult or throw
Returns(result) == [kind |-> "return", result |-> result, exc |-> NoException]
Throws(exc) == [kind |-> "throw", result |-> NoResult, exc |-> exc]
NotSettled == [kind |-> "none", result |-> NoResult, exc |-> NoException]
ToolOutcomes ==
  {Returns(ToolResult(<<[type |-> "text", text |-> "report"]>>)),
   Returns(ToolResult(<<>>)),
   Throws(Error("Error", <<"boom">>)),
   Throws(Error("Error", <<>>)),
   Throws(ThrownString("oops")),
   Throws(ThrownNull)}

(***************************************************************************)
(* State.                                                                  *)
(***************************************************************************)
VARIABLES
  env,          \* this.env of the handler
  tools,        \* this.tools, the Map built by init
  pc,           \* where the connection's async function stands
  request,      \* the HTTP request given to handleSSE
  stream,       \* the TransformStream: "none", "open", "errored", "closed"
  events,       \* the chunks the stream accepted, in order
  message,      \* the message given to processMessage
  response,     \* the response object of processMessage
  pending,      \* the exception in flight, NoException when none
  executeCalls, \* the calls of tool.execute made so far
  settled,      \* how the awaited execute call settled
  pmCalls,      \* number of calls of processMessage
  pmWrites,     \* the payloads processMessage handed to writer.write
  pmThrew,      \* processMessage rejected
  closeCalls,   \* number of calls of writer.close
  unhandled     \* the async function rejected (an unhandled rejection)

\* State outside the single connection above.
VARIABLES
  conns,        \* the connections of the worker that are served side by side
  reg,          \* a handler built by init from an arbitrary registry array
  auth          \* a call of getAuthenticatedClient and the token store

VARIABLES
  oauth,        \* the OAuth states issued by /auth and the /auth-callback requests
  tool,         \* a call of a registered tool's execute
  race,         \* two calls of getAuthenticatedClient on one token store
  seo,          \* a call of an SEO analysis tool's execute over a list of URLs
  calc          \* a call of one of the numeric helpers

later == <<oauth, tool, race, seo, calc>>

outside == <<conns, reg, auth, later>>

vars == <<env, tools, pc, request, stream, events, message, response, pending,
          executeCalls, settled, pmCalls, pmWrites, pmThrew, closeCalls, unhandled,
          outside>>

StreamError == Error("TypeError", <<"This WritableStream has been closed or errored">>)
SyntaxError == Error("SyntaxError", <<"Unexpected end of JSON input">>)
NullReadError == Error("TypeError", <<"Cannot read properties of null (reading 'id')">>)

\* the variables of the single connection
single == <<env, tools, pc, request, stream, events, message, response, pending,
            executeCalls, settled, pmCalls, pmWrites, pmThrew, closeCalls, unhandled>>

\* the two connections that are open side by side
Conns == {1, 2}

\* a connection slot that serves no request
NoConn ==
  [pc |-> "idle", env |-> "", tools |-> <<>>, request |-> NoRequest,
   stream |-> "none", events |-> <<>>, message |-> NoMessage,
   response |-> NoResponse, pending |-> NoException, calls |-> <<>>,
   settled |-> NotSettled, writes |-> <<>>, afterCall |-> FALSE]
NoConns == [c \in Conns |-> NoConn]

\* the handler of the single connection, constructed and not yet used
HandlerInit ==
  /\ env \in Envs
  /\ tools = init(toolRegistry)
  /\ pc = "idle"
  /\ request = NoRequest
  /\ stream = "none"
  /\ events = <<>>
  /\ message = NoMessage
  /\ response = NoResponse
  /\ pending = NoException
  /\ executeCalls = <<>>
  /\ settled = NotSettled
  /\ pmCalls = 0
  /\ pmWrites = <<>>
  /\ pmThrew = FALSE
  /\ closeCalls = 0
  /\ unhandled = FALSE

\* no handler built from an arbitrary registry array
NoReg ==
  [pc |-> "none", input |-> <<>>, tools |-> <<>>, error |-> NoException,
   got |-> [name |-> "", found |-> FALSE, definition |-> 0]]
\* TokenData, and the value kv.get gives for a key that is not stored
TokenData(access, refresh, expiry) ==
  [access_token |-> access, refresh_token |-> refresh, expiry_date |-> expiry]
NoTokens == TokenData("", "", 0)
\* no call of getAuthenticatedClient
NoAuth ==
  [pc |-> "none", configured |-> FALSE, now |-> 0,
   kv |-> [has |-> FALSE, tokens |-> NoTokens],
   tokens |-> NoTokens, checkedAt |-> 0, newTokens |-> NoTokens,
   credentials |-> NoTokens, refreshCalls |-> 0, puts |-> <<>>,
   result |-> "none", exc |-> NoException]

\* the values Math.random().toString(36).substring(7) gives in the model, and
\* the /auth-callback requests
States == {"s1", "s2"}
Callbacks == {1, 2}
\* no /auth-callback request; code, state and error are the query parameters,
\* "" for an absent one
NoCallback ==
  [pc |-> "idle", code |-> "", state |-> "", error |-> "", page |-> "none"]
\* no OAuth state issued: kv tells the states stored under
\* `oauth_state_${state}`, issued counts the /auth requests that stored each
\* state, tokenPuts lists the storeTokens calls of the callbacks
NoOauth ==
  [configured |-> FALSE,
   kv |-> [s \in States |-> FALSE],
   issued |-> [s \in States |-> 0],
   cbs |-> [cb \in Callbacks |-> NoCallback],
   tokenPuts |-> <<>>]
\* no call of a tool's execute: todo is the number of upstream calls the
\* tool makes when none fails, calls the upstream calls made, failures the
\* rejections the tool has seen, output the text its per-URL catch has added
NoTool ==
  [pc |-> "none", name |-> "", todo |-> 0, calls |-> 0, failures |-> <<>>,
   output |-> <<>>, outcome |-> NotSettled]
\* the tool invocations that run getAuthenticatedClient side by side
Callers == {1, 2}
NoCaller ==
  [pc |-> "none", tokens |-> NoTokens, newTokens |-> NoTokens, refreshCalls |-> 0]
\* no invocation: kv is the value stored under the token key of the one
\* user, writes lists the kv.put calls in the order the store applied them
NoRace ==
  [kv |-> NoTokens, callers |-> [c \in Callers |-> NoCaller], writes |-> <<>>]
\* const issues = { 'Indexed': [], 'Crawled - not indexed': [], ... }
CoverageCategories ==
  {"Indexed", "Crawled - not indexed", "Discovered - not indexed",
   "Blocked by robots.txt", "Redirect", "Not found (404)", "Server error (5xx)",
   "Other"}
\* the two pages of the site, and what an inspection of a page gives
Pages == {"a", "b"}
NoInspection ==
  [kind |-> "none", hasIndexStatus |-> FALSE, verdict |-> "", coverageState |-> "",
   pageFetchState |-> "", robotsTxtState |-> ""]
\* no call of check_page_experience or get_coverage_report: urls is the
\* argument (a sequence of characters), world the answer of inspectUrl for
\* each page, calls the URLs given to inspectUrl, report the entries of
\* the per-URL loop, pushed the categories each iteration pushed its URL to
NoSeo ==
  [pc |-> "none", name |-> "", urls |-> <<>>,
   world |-> [p \in Pages |-> NoInspection],
   urlList |-> <<>>, i |-> 0, calls |-> <<>>, report |-> <<>>,
   issues |-> [c \in CoverageCategories |-> <<>>], pushed |-> <<>>,
   analyzed |-> 0, indexed |-> 0, notIndexed |-> 0]
\* a number given as the quotient num / den of two integers
Ratio(num, den) == [num |-> num, den |-> den]
\* no call of a numeric helper: position is in tenths, ctr in thousandths
NoCalc ==
  [pc |-> "none", fn |-> "", position |-> 0, ctr |-> 0,
   before |-> 0, after |-> 0, change |-> Ratio(0, 1)]

\* nothing of the later components is running
LaterInit ==
  oauth = NoOauth /\ tool = NoTool /\ race = NoRace /\ seo = NoSeo /\ calc = NoCalc

Init == HandlerInit /\ conns = NoConns /\ reg = NoReg /\ auth = NoAuth /\ LaterInit

\* handleSSE(request): the TransformStream and its writer are created and
\* the async function starts; the Response holding the readable side is
\* returned to the runtime.
HandleSSE(req) ==
  /\ pc = "idle"
  /\ request' = req
  /\ stream' = "open"
  /\ pc' = "keepalive"
  /\ UNCHANGED <<outside, env, tools, events, message, response, pending, executeCalls,
                 settled, pmCalls, pmWrites, pmThrew, closeCalls, unhandled>>

\* The peer cancels the readable side (it disconnects): the writable side
\* becomes errored, and every later write and close rejects.
Abort ==
  /\ stream = "open"
  /\ pc # "done"
  /\ stream' = "errored"
  /\ UNCHANGED <<outside, env, tools, pc, request, events, message, response, pending,
                 executeCalls, settled, pmCalls, pmWrites, pmThrew, closeCalls,
                 unhandled>>

\* handleSSE without the initial write
KeepAliveOmitted ==
  /\ pc = "keepalive"
  /\ pc' = "read"
  /\ UNCHANGED <<outside, env, tools, request, stream, events, message, response,
                 pending, executeCalls, settled, pmCalls, pmWrites, pmThrew,
                 closeCalls, unhandled>>

\* await writer.write(": connection established\n\n")
KeepAlive ==
  /\ pc = "keepalive"
  /\ IF stream = "open"
       THEN /\ events' = Append(events, KeepAliveEvent)
            /\ pc' = "read"
            /\ UNCHANGED pending
       ELSE /\ pending' = StreamError
            /\ pc' = "catch"
            /\ UNCHANGED events
  /\ UNCHANGED <<outside, env, tools, request, stream, message, response, executeCalls,
                 settled, pmCalls, pmWrites, pmThrew, closeCalls, unhandled>>

\* InboundMessage deciding on the presence of a body instead of the method
InboundMessageByBody(req) ==
  IF req.body.kind = "none"
    THEN [ok |-> TRUE, value |-> Message(N(ListMessageId), S("tools/list"), NoParams),
          error |-> NoException]
  ELSE IF req.body.kind = "json"
    THEN [ok |-> TRUE, value |-> req.body.json, error |-> NoException]
  ELSE [ok |-> FALSE, value |-> NoMessage,
        error |-> Error("SyntaxError", <<"Unexpected end of JSON input">>)]

\* request.json(): the parsed body, or a SyntaxError for an absent or
\* malformed body
RequestJson(body) ==
  IF body.kind = "json"
    THEN [ok |-> TRUE, value |-> body.json, error |-> NoException]
    ELSE [ok |-> FALSE, value |-> NoMessage, error |-> SyntaxError]

\* { jsonrpc: "2.0", id: 1, method: "tools/list" }
listMessage == Message(N(ListMessageId), S("tools/list"), NoParams)

\* The message handleSSE gives to processMessage.
InboundMessage(req) ==
  IF req.method = "POST"
    THEN RequestJson(req.body)
    ELSE [ok |-> TRUE, value |-> listMessage, error |-> NoException]

\* if (request.method === "POST") { body = await request.json() ... }
ReadBody ==
  /\ pc = "read"
  /\ LET inbound == InboundMessage(request)
     IN  IF inbound.ok
           THEN /\ message' = inbound.value
                /\ pc' = "dispatch"
                /\ UNCHANGED pending
           ELSE /\ pending' = inbound.error
                /\ pc' = "catch"
                /\ UNCHANGED message
  /\ UNCHANGED <<outside, env, tools, request, stream, events, response, executeCalls,
                 settled, pmCalls, pmWrites, pmThrew, closeCalls, unhandled>>

\* processMessage(message, writer) up to its first await.
Dispatch ==
  /\ pc = "dispatch"
  /\ pmCalls' = pmCalls + 1
  /\ IF message.t = "null"
       THEN \* message.id of null throws before the try block
            /\ pending' = NullReadError
            /\ pmThrew' = TRUE
            /\ pc' = "catch"
            /\ UNCHANGED <<response, executeCalls>>
       ELSE LET route == Route(tools, env, message)
                caught == Catch(NewResponse(message), route.exc)
            IN  IF route.calls # <<>>
                  THEN /\ response' = NewResponse(message)
                       /\ executeCalls' = executeCalls \o route.calls
                       /\ pc' = "executing"
                       /\ UNCHANGED <<pending, pmThrew>>
                ELSE IF route.exc # NoException
                  THEN /\ response' = caught.response
                       /\ pc' = "write"
                       /\ UNCHANGED <<pending, pmThrew, executeCalls>>
                ELSE /\ response' = [NewResponse(message) EXCEPT !.result = route.result]
                     /\ pc' = "write"
                     /\ UNCHANGED <<pending, pmThrew, executeCalls>>
  /\ UNCHANGED <<outside, env, tools, request, stream, events, message, settled,
                 pmWrites, closeCalls, unhandled>>

\* const result = await tool.execute(validatedArgs) settles: the result is
\* stored, or the exception goes through the catch block.
ToolSettles(outcome) ==
  /\ pc = "executing"
  /\ settled' = outcome
  /\ IF outcome.kind = "return"
       THEN /\ response' = [response EXCEPT !.result = outcome.result]
            /\ pc' = "write"
            /\ UNCHANGED <<pending, pmThrew>>
       ELSE LET caught == Catch(response, outcome.exc)
            IN  IF caught.thrown = NoException
                  THEN /\ response' = caught.response
                       /\ pc' = "write"
                       /\ UNCHANGED <<pending, pmThrew>>
                  ELSE /\ pending' = caught.thrown
                       /\ pmThrew' = TRUE
                       /\ pc' = "catch"
                       /\ UNCHANGED response
  /\ UNCHANGED <<outside, env, tools, request, stream, events, message, executeCalls,
                 pmCalls, pmWrites, closeCalls, unhandled>>

\* await writer.write(encoder.encode(`data: ${JSON.stringify(response)}\n\n`))
WriteResponse ==
  /\ pc = "write"
  /\ pmWrites' = Append(pmWrites, Serialize(response))
  /\ IF stream = "open"
       THEN /\ events' = Append(events, DataEvent(Serialize(response)))
            /\ pc' = "finally"
            /\ UNCHANGED <<pending, pmThrew>>
       ELSE /\ pending' = StreamError
            /\ pmThrew' = TRUE
            /\ pc' = "catch"
            /\ UNCHANGED events
  /\ UNCHANGED <<outside, env, tools, request, stream, message, response, executeCalls,
                 settled, pmCalls, closeCalls, unhandled>>

\* CatchWrite with an empty catch block: the error is swallowed, no event
CatchSilently ==
  /\ pc = "catch"
  /\ pending' = NoException
  /\ pc' = "finally"
  /\ UNCHANGED <<outside, env, tools, request, stream, events, message, response,
                 executeCalls, settled, pmCalls, pmWrites, pmThrew, closeCalls,
                 unhandled>>

\* catch (error) { await writer.write(`data: ${JSON.stringify({error})}\n\n`) }
CatchWrite ==
  /\ pc = "catch"
  /\ IF stream = "open"
       THEN /\ events' = Append(events, DataEvent(TransportError(pending)))
            /\ pending' = NoException
       ELSE /\ pending' = StreamError
            /\ UNCHANGED events
  /\ pc' = "finally"
  /\ UNCHANGED <<outside, env, tools, request, stream, message, response, executeCalls,
                 settled, pmCalls, pmWrites, pmThrew, closeCalls, unhandled>>

\* Finally with writer.close() at the end of the try block instead: it is
\* skipped when an exception is in flight
CloseInTryOnly ==
  /\ pc = "finally"
  /\ IF pending # NoException
       THEN /\ unhandled' = TRUE
            /\ UNCHANGED <<stream, closeCalls>>
       ELSE /\ closeCalls' = closeCalls + 1
            /\ IF stream = "open"
                 THEN stream' = "closed" /\ unhandled' = FALSE
                 ELSE unhandled' = TRUE /\ UNCHANGED stream
  /\ pc' = "done"
  /\ UNCHANGED <<outside, env, tools, request, events, message, response, pending,
                 executeCalls, settled, pmCalls, pmWrites, pmThrew>>

\* finally { await writer.close() }
Finally ==
  /\ pc = "finally"
  /\ closeCalls' = closeCalls + 1
  /\ IF stream = "open"
       THEN /\ stream' = "closed"
            /\ unhandled' = (pending # NoException)
       ELSE /\ unhandled' = TRUE
            /\ UNCHANGED stream
  /\ pc' = "done"
  /\ UNCHANGED <<outside, env, tools, request, events, message, response, pending,
                 executeCalls, settled, pmCalls, pmWrites, pmThrew>>

Next ==
  \/ \E req \in Requests : HandleSSE(req)
  \/ Abort
  \/ KeepAlive
  \/ ReadBody
  \/ Dispatch
  \/ \E outcome \in ToolOutcomes : ToolSettles(outcome)
  \/ WriteResponse
  \/ CatchWrite
  \/ Finally

Spec == Init /\ [][Next]_vars

\* The requests whose tools/call arguments have at most one property.
LiveRequests ==
  {req \in Requests : Cardinality(DOMAIN req.body.json.params.arguments.o) <= 1}

LiveNext ==
  \/ \E req \in LiveRequests : HandleSSE(req)
  \/ Abort
  \/ KeepAlive
  \/ ReadBody
  \/ Dispatch
  \/ \E outcome \in ToolOutcomes : ToolSettles(outcome)
  \/ WriteResponse
  \/ CatchWrite
  \/ Finally

\* The event loop runs the continuation of every await that has settled.
\* Nothing makes a request arrive, the peer cancel, or execute settle.
FairSpec ==
  /\ Init /\ [][LiveNext]_vars
  /\ WF_vars(KeepAlive)
  /\ WF_vars(ReadBody)
  /\ WF_vars(Dispatch)
  /\ WF_vars(WriteResponse)
  /\ WF_vars(CatchWrite)
  /\ WF_vars(Finally)

(***************************************************************************)
(* Connections served side by side.  Each route handler builds a handler   *)
(* of its own for the request (new SSEStdioHandler(c.env)) and runs        *)
(* handleSSE on it; the async functions of the connections interleave at   *)
(* their awaits.  The steps are those of the single connection above, on   *)
(* the record of the connection.  The field afterCall records, when a      *)
(* connection dispatches, that a connection which executed a tool was      *)
(* already over.                                                           *)
(***************************************************************************)
\* a module-level handler shared by every request instead
SharedHandler(c) == 1
\* const handler = new SSEStdioHandler(c.env): the handler that serves c
HandlerOf(c) == c

ConnRequests ==
  {[method |-> "GET", body |-> NoBody],
   [method |-> "POST", body |-> JsonBody(Message(N(7), S("initialize"), NoParams))],
   [method |-> "POST", body |-> JsonBody(Message(N(7), S("tools/list"), NoParams))],
   [method |-> "POST",
    body |-> JsonBody(Message(S("a"), S("tools/call"),
                              Params(S("search"),
                                     [t |-> "object",
                                      o |-> [k \in {"query"} |-> S("https://a.com")]])))],
   [method |-> "POST",
    body |-> JsonBody(Message(N(7), S("tools/call"),
                              Params(S("find_high_potential_keywords"),
                                     [t |-> "object", o |-> EmptyObject])))]}
ConnOutcomes ==
  {Returns(ToolResult(<<[type |-> "text", text |-> "report"]>>)),
   Throws(Error("Error", <<"boom">>)),
   Throws(ThrownNull)}

\* app.all("/mcp-sse" | "/mcp-direct" | "/sse"): a handler is constructed
\* for the request and handleSSE starts on it
ConnOpen(c, e, req) ==
  /\ conns[c].pc = "idle"
  /\ conns' = [conns EXCEPT ![c] =
                 [NoConn EXCEPT !.env = e, !.tools = init(toolRegistry),
                                !.request = req, !.stream = "open",
                                !.pc = "keepalive"]]
  /\ UNCHANGED <<single, reg, auth, later>>

\* the peer of connection c cancels the readable side
ConnAbort(c) ==
  /\ conns[c].stream = "open"
  /\ conns[c].pc # "done"
  /\ conns' = [conns EXCEPT ![c].stream = "errored"]
  /\ UNCHANGED <<single, reg, auth, later>>

\* await writer.write(": connection established\n\n")
ConnKeepAlive(c) ==
  /\ conns[c].pc = "keepalive"
  /\ conns' = [conns EXCEPT ![c] =
                 IF @.stream = "open"
                   THEN [@ EXCEPT !.events = Append(@, KeepAliveEvent), !.pc = "read"]
                   ELSE [@ EXCEPT !.pending = StreamError, !.pc = "catch"]]
  /\ UNCHANGED <<single, reg, auth, later>>

\* if (request.method === "POST") { body = await request.json() ... }
ConnReadBody(c) ==
  /\ conns[c].pc = "read"
  /\ LET inbound == InboundMessage(conns[c].request)
     IN  conns' = [conns EXCEPT ![c] =
                     IF inbound.ok
                       THEN [@ EXCEPT !.message = inbound.value, !.pc = "dispatch"]
                       ELSE [@ EXCEPT !.pending = inbound.error, !.pc = "catch"]]
  /\ UNCHANGED <<single, reg, auth, later>>

\* processMessage(message, writer) up to its first await, on the handler
\* that serves c
ConnDispatch(c) ==
  /\ conns[c].pc = "dispatch"
  /\ LET handler == conns[HandlerOf(c)]
         msg == conns[c].message
         route == Route(handler.tools, handler.env, msg)
         caught == Catch(NewResponse(msg), route.exc)
         seen == \E d \in Conns \ {c} : conns[d].pc = "done" /\ conns[d].calls # <<>>
     IN  conns' = [conns EXCEPT ![c] =
                     IF msg.t = "null"
                       THEN [@ EXCEPT !.pending = NullReadError, !.pc = "catch",
                                      !.afterCall = seen]
                     ELSE IF route.calls # <<>>
                       THEN [@ EXCEPT !.response = NewResponse(msg),
                                      !.calls = @ \o route.calls,
                                      !.pc = "executing", !.afterCall = seen]
                     ELSE IF route.exc # NoException
                       THEN [@ EXCEPT !.response = caught.response, !.pc = "write",
                                      !.afterCall = seen]
                     ELSE [@ EXCEPT !.response =
                                      [NewResponse(msg) EXCEPT !.result = route.result],
                                    !.pc = "write", !.afterCall = seen]]
  /\ UNCHANGED <<single, reg, auth, later>>

\* const result = await tool.execute(validatedArgs) settles
ConnToolSettles(c, outcome) ==
  /\ conns[c].pc = "executing"
  /\ LET caught == Catch(conns[c].response, outcome.exc)
     IN  conns' = [conns EXCEPT ![c] =
                     IF outcome.kind = "return"
                       THEN [@ EXCEPT !.settled = outcome,
                                      !.response = [@ EXCEPT !.result = outcome.result],
                                      !.pc = "write"]
                     ELSE IF caught.thrown = NoException
                       THEN [@ EXCEPT !.settled = outcome,
                                      !.response = caught.response, !.pc = "write"]
                     ELSE [@ EXCEPT !.settled = outcome,
                                    !.pending = caught.thrown, !.pc = "catch"]]
  /\ UNCHANGED <<single, reg, auth, later>>

\* await writer.write(encoder.encode(`data: ${JSON.stringify(response)}\n\n`))
ConnWriteResponse(c) ==
  /\ conns[c].pc = "write"
  /\ LET payload == Serialize(conns[c].response)
     IN  conns' = [conns EXCEPT ![c] =
                     IF @.stream = "open"
                       THEN [@ EXCEPT !.writes = Append(@, payload),
                                      !.events = Append(@, DataEvent(payload)),
                                      !.pc = "finally"]
                       ELSE [@ EXCEPT !.writes = Append(@, payload),
                                      !.pending = StreamError, !.pc = "catch"]]
  /\ UNCHANGED <<single, reg, auth, later>>

\* catch (error) { await writer.write(`data: ${JSON.stringify({error})}\n\n`) }
ConnCatchWrite(c) ==
  /\ conns[c].pc = "catch"
  /\ conns' = [conns EXCEPT ![c] =
                 IF @.stream = "open"
                   THEN [@ EXCEPT !.events = Append(@, DataEvent(TransportError(conns[c].pending))),
                                  !.pending = NoException, !.pc = "finally"]
                   ELSE [@ EXCEPT !.pending = StreamError, !.pc = "finally"]]
  /\ UNCHANGED <<single, reg, auth, later>>

\* finally { await writer.close() }
ConnFinally(c) ==
  /\ conns[c].pc = "finally"
  /\ conns' = [conns EXCEPT ![c] =
                 IF @.stream = "open"
                   THEN [@ EXCEPT !.stream = "closed", !.pc = "done"]
                   ELSE [@ EXCEPT !.pc = "done"]]
  /\ UNCHANGED <<single, reg, auth, later>>

\* the connection is over: its handler and stream are dropped, and the slot
\* serves the next request
ConnRecycle(c) ==
  /\ conns[c].pc = "done"
  /\ conns' = [conns EXCEPT ![c] = NoConn]
  /\ UNCHANGED <<single, reg, auth, later>>

ConcurrentNext ==
  \/ \E c \in Conns, e \in Envs, req \in ConnRequests : ConnOpen(c, e, req)
  \/ \E c \in Conns : ConnAbort(c)
  \/ \E c \in Conns : ConnKeepAlive(c)
  \/ \E c \in Conns : ConnReadBody(c)
  \/ \E c \in Conns : ConnDispatch(c)
  \/ \E c \in Conns, outcome \in ConnOutcomes : ConnToolSettles(c, outcome)
  \/ \E c \in Conns : ConnWriteResponse(c)
  \/ \E c \in Conns : ConnCatchWrite(c)
  \/ \E c \in Conns : ConnFinally(c)
  \/ \E c \in Conns : ConnRecycle(c)

ConcurrentInit == Init /\ env = "envA"

ConcurrentSpec == ConcurrentInit /\ [][ConcurrentNext]_vars

(***************************************************************************)
(* init on an arbitrary registry array: the array may hold two descriptors *)
(* of one name.  An entry of the Map refers to a descriptor by its index   *)
(* in the array.                                                           *)
(***************************************************************************)
\* the longest registry array
MaxRegistry == 3

\* a second descriptor named "search", with the schema of fetch
searchToolAgain == [name |-> "search", schema |-> <<ZString("id", <<>>)>>]

RegDescriptors == {searchTool, fetchTool, listPropertiesTool, searchToolAgain}
InputRegistries == UNION {[1..n -> RegDescriptors] : n \in 0..MaxRegistry}

\* new SSEStdioHandler(env): init runs tools.set for every descriptor of the
\* array and throws nothing
RegConstruct ==
  /\ reg.pc = "new"
  /\ reg' = [reg EXCEPT !.pc = "built", !.tools = init(reg.input)]
  /\ UNCHANGED <<single, conns, auth, later>>

\* const tool = this.tools.get(toolName)
RegGet(name) ==
  /\ reg.pc = "built"
  /\ reg' = [reg EXCEPT !.pc = "got",
                        !.got = IF MapHas(reg.tools, name)
                                  THEN [name |-> name, found |-> TRUE,
                                        definition |-> reg.tools[MapIndex(reg.tools, name)].definition]
                                  ELSE [name |-> name, found |-> FALSE, definition |-> 0]]
  /\ UNCHANGED <<single, conns, auth, later>>

RegistryInit ==
  /\ HandlerInit /\ env = "envA" /\ conns = NoConns /\ auth = NoAuth /\ LaterInit
  /\ reg \in {[NoReg EXCEPT !.pc = "new", !.input = r] : r \in InputRegistries}

RegistryNext ==
  \/ RegConstruct
  \/ \E name \in {"search", "fetch", "list_properties", "nope"} : RegGet(name)

RegistrySpec == RegistryInit /\ [][RegistryNext]_vars

(***************************************************************************)
(* getAuthenticatedClient(params): the stored tokens of 'default_user' are *)
(* read from the KV namespace, refreshed when expired, and set on a new    *)
(* client.  auth.kv is the value stored under the token key, auth.puts the *)
(* kv.put calls of this call, auth.now the time in milliseconds.           *)
(***************************************************************************)
\* isTokenExpired: Date.now() >= expiryDate - 300000
ExpiryBuffer == 300000
\* the time at which the call starts, and the latest time of the model
StartTime == 1000000
MaxNow == 1000002

\* `gsc_token_${userId}`
TokenKey(userId) == <<"gsc_token_", userId>>

ExpiryDates ==
  {900000, StartTime + ExpiryBuffer - 1, StartTime + ExpiryBuffer,
   StartTime + ExpiryBuffer + 1, StartTime + ExpiryBuffer + 2, 5000000}
StoredTokens == {TokenData("old", "r1", x) : x \in ExpiryDates}

\* what oauth2Client.refreshAccessToken() can do: give new credentials, with
\* or without a refresh_token, or reject
RefreshOutcomes ==
  {[kind |-> "return", credentials |-> TokenData("new", "r1", 4600000)],
   [kind |-> "return", credentials |-> TokenData("new", "", 4600000)],
   [kind |-> "throw", credentials |-> NoTokens]}

\* isTokenExpired without the five-minute buffer
isTokenExpiredNoBuffer(now, expiryDate) == now >= expiryDate
\* isTokenExpired(expiryDate), now being Date.now()
isTokenExpired(now, expiryDate) == now >= expiryDate - ExpiryBuffer

\* the rejections of kv.get, of oauth2Client.refreshAccessToken and of kv.put
KvGetError == Error("Error", <<"KV GET failed">>)
RefreshError == Error("Error", <<"invalid_grant">>)
KvPutError == Error("Error", <<"KV PUT failed">>)

\* time passes
Tick ==
  /\ auth.pc \notin {"none", "returned", "threw"}
  /\ auth.now < MaxNow
  /\ auth' = [auth EXCEPT !.now = @ + 1]
  /\ UNCHANGED <<single, conns, reg, later>>

\* getAuthenticatedClient throwing where it has no client to return
GetTokensThrowing(found) ==
  /\ auth.pc = "start"
  /\ auth' = IF ~auth.configured \/ ~found \/ ~auth.kv.has
               THEN [auth EXCEPT !.pc = "threw", !.result = "throw",
                                 !.exc = Error("Error", <<"Not authenticated">>)]
               ELSE [auth EXCEPT !.pc = "check", !.tokens = auth.kv.tokens]
  /\ UNCHANGED <<single, conns, reg, later>>

\* the check of the OAuth configuration, then
\* const tokens = await tokenManager.getTokens('default_user')
\* (found tells whether kv.get fulfils)
GetTokens(found) ==
  /\ auth.pc = "start"
  /\ auth' = IF ~auth.configured
               THEN [auth EXCEPT !.pc = "returned", !.result = "error"]
             ELSE IF ~found
               THEN [auth EXCEPT !.pc = "threw", !.result = "throw",
                                 !.exc = KvGetError]
             ELSE IF ~auth.kv.has
               THEN [auth EXCEPT !.pc = "returned", !.result = "error"]
               ELSE [auth EXCEPT !.pc = "check", !.tokens = auth.kv.tokens]
  /\ UNCHANGED <<single, conns, reg, later>>

\* new GoogleSearchConsoleClient(...); if (client.isTokenExpired(
\* tokens.expiry_date)) { client.setCredentials(tokens); newTokens = await
\* client.refreshAccessToken() ... } else { client.setCredentials(tokens) }
CheckExpiry ==
  /\ auth.pc = "check"
  /\ auth' = IF isTokenExpired(auth.now, auth.tokens.expiry_date)
               THEN [auth EXCEPT !.pc = "refreshing", !.checkedAt = auth.now,
                                 !.credentials = auth.tokens,
                                 !.refreshCalls = @ + 1]
               ELSE [auth EXCEPT !.pc = "returned", !.checkedAt = auth.now,
                                 !.credentials = auth.tokens,
                                 !.result = "client"]
  /\ UNCHANGED <<single, conns, reg, later>>

\* refreshAccessToken settles; on success
\* await tokenManager.storeTokens('default_user', newTokens) is called
RefreshSettles(outcome) ==
  /\ auth.pc = "refreshing"
  /\ auth' = IF outcome.kind = "return"
               THEN [auth EXCEPT !.pc = "storing",
                                 !.newTokens = outcome.credentials,
                                 !.puts = Append(@, [key |-> TokenKey("default_user"),
                                                     value |-> outcome.credentials])]
               ELSE [auth EXCEPT !.pc = "threw", !.result = "throw",
                                 !.exc = RefreshError]
  /\ UNCHANGED <<single, conns, reg, later>>

\* kv.put settles; on success client.setCredentials(newTokens); return client
StoreSettles(stored) ==
  /\ auth.pc = "storing"
  /\ auth' = IF stored
               THEN [auth EXCEPT !.pc = "returned",
                                 !.kv = [has |-> TRUE, tokens |-> auth.newTokens],
                                 !.credentials = auth.newTokens,
                                 !.result = "client"]
               ELSE [auth EXCEPT !.pc = "threw", !.result = "throw",
                                 !.exc = KvPutError]
  /\ UNCHANGED <<single, conns, reg, later>>

AuthInit ==
  /\ HandlerInit /\ env = "envA" /\ conns = NoConns /\ reg = NoReg /\ LaterInit
  /\ auth \in {[NoAuth EXCEPT !.pc = "start", !.configured = cfg, !.kv = stored,
                              !.now = StartTime] :
                  cfg \in BOOLEAN,
                  stored \in {[has |-> FALSE, tokens |-> NoTokens]}
                              \cup {[has |-> TRUE, tokens |-> t] : t \in StoredTokens}}

AuthNext ==
  \/ Tick
  \/ \E found \in BOOLEAN : GetTokens(found)
  \/ CheckExpiry
  \/ \E outcome \in RefreshOutcomes : RefreshSettles(outcome)
  \/ \E stored \in BOOLEAN : StoreSettles(stored)

AuthSpec == AuthInit /\ [][AuthNext]_vars

(***************************************************************************)
(* The OAuth routes.  GET /auth stores a random state in the KV namespace  *)
(* and redirects to Google; GET /auth-callback consumes the state          *)
(* (TokenManager.consumeOAuthState: kv.get, then kv.delete), exchanges the *)
(* code for tokens and stores them for 'default_user'.  The route handlers *)
(* of two requests interleave at their awaits.                             *)
(***************************************************************************)
\* the /auth requests of the model
MaxIssues == 2

Codes == {"", "c1"}
CallbackStates == {""} \cup States
CallbackErrors == {"", "access_denied"}

TotalIssued == oauth.issued["s1"] + oauth.issued["s2"]

\* GET /auth with the OAuth credentials configured:
\* await tokenManager.storeOAuthState(state, {timestamp}); c.redirect(authUrl)
AuthRoute(state) ==
  /\ oauth.configured
  /\ TotalIssued < MaxIssues
  /\ oauth' = [oauth EXCEPT !.kv[state] = TRUE, !.issued[state] = @ + 1]
  /\ UNCHANGED <<single, conns, reg, auth, tool, race, seo, calc>>

\* expirationTtl: 600 - the KV namespace drops a stored state
StateExpires(state) ==
  /\ oauth.kv[state]
  /\ oauth' = [oauth EXCEPT !.kv[state] = FALSE]
  /\ UNCHANGED <<single, conns, reg, auth, tool, race, seo, calc>>

\* GET /auth-callback?code=..&state=..&error=..: the two checks of the query
\* parameters, then the call of consumeOAuthState up to its kv.get
CallbackStart(cb, code, state, error) ==
  /\ oauth.cbs[cb].pc = "idle"
  /\ oauth' = [oauth EXCEPT !.cbs[cb] =
       [pc |-> IF error # "" \/ code = "" \/ state = "" THEN "done" ELSE "get",
        code |-> code, state |-> state, error |-> error,
        page |-> IF error # "" THEN "Authentication Failed"
                 ELSE IF code = "" \/ state = "" THEN "Invalid Request"
                 ELSE "none"]]
  /\ UNCHANGED <<single, conns, reg, auth, tool, race, seo, calc>>

\* const data = await this.kv.get(key); if (!data) return null - and the
\* route answers Invalid State; a rejection is caught by the route
ConsumeGet(cb, ok) ==
  /\ oauth.cbs[cb].pc = "get"
  /\ oauth' = [oauth EXCEPT !.cbs[cb] =
       IF ~ok THEN [@ EXCEPT !.pc = "done", !.page = "Authentication Error"]
       ELSE IF ~oauth.kv[@.state]
         THEN [@ EXCEPT !.pc = "done", !.page = "Invalid State"]
       ELSE [@ EXCEPT !.pc = "delete"]]
  /\ UNCHANGED <<single, conns, reg, auth, tool, race, seo, calc>>

\* await this.kv.delete(key); return JSON.parse(data) - and the route calls
\* client.getTokensFromCode(code)
ConsumeDelete(cb, ok) ==
  /\ oauth.cbs[cb].pc = "delete"
  /\ oauth' = IF ok
       THEN [oauth EXCEPT !.kv[oauth.cbs[cb].state] = FALSE,
                          !.cbs[cb].pc = "exchange"]
       ELSE [oauth EXCEPT !.cbs[cb].pc = "done",
                          !.cbs[cb].page = "Authentication Error"]
  /\ UNCHANGED <<single, conns, reg, auth, tool, race, seo, calc>>

\* getTokensFromCode settles; on success
\* await tokenManager.storeTokens('default_user', tokens) is called
Exchange(cb, ok) ==
  /\ oauth.cbs[cb].pc = "exchange"
  /\ oauth' = IF ok
       THEN [oauth EXCEPT !.cbs[cb].pc = "store",
                          !.tokenPuts = Append(@, [cb |-> cb,
                                                   state |-> oauth.cbs[cb].state])]
       ELSE [oauth EXCEPT !.cbs[cb].pc = "done",
                          !.cbs[cb].page = "Authentication Error"]
  /\ UNCHANGED <<single, conns, reg, auth, tool, race, seo, calc>>

\* storeTokens settles: the success page, or the page of the catch block
StoreTokens(cb, ok) ==
  /\ oauth.cbs[cb].pc = "store"
  /\ oauth' = [oauth EXCEPT !.cbs[cb].pc = "done",
                            !.cbs[cb].page = IF ok THEN "Authentication Successful"
                                             ELSE "Authentication Error"]
  /\ UNCHANGED <<single, conns, reg, auth, tool, race, seo, calc>>

OAuthInit ==
  /\ HandlerInit /\ env = "envA" /\ conns = NoConns /\ reg = NoReg /\ auth = NoAuth
  /\ tool = NoTool /\ race = NoRace /\ seo = NoSeo /\ calc = NoCalc
  /\ oauth = [NoOauth EXCEPT !.configured = TRUE]

OAuthNext ==
  \/ \E state \in States : AuthRoute(state)
  \/ \E state \in States : StateExpires(state)
  \/ \E cb \in Callbacks, code \in Codes, state \in CallbackStates,
        error \in CallbackErrors : CallbackStart(cb, code, state, error)
  \/ \E cb \in Callbacks, ok \in BOOLEAN : ConsumeGet(cb, ok)
  \/ \E cb \in Callbacks, ok \in BOOLEAN : ConsumeDelete(cb, ok)
  \/ \E cb \in Callbacks, ok \in BOOLEAN : Exchange(cb, ok)
  \/ \E cb \in Callbacks, ok \in BOOLEAN : StoreTokens(cb, ok)

OAuthSpec == OAuthInit /\ [][OAuthNext]_vars

(***************************************************************************)
(* The execute functions of the registered tools.  search and fetch work   *)
(* on static data.  Every other tool runs, inside one try block, the token *)
(* logic (getAuthenticatedClient, written out in list_properties) and then *)
(* its calls of the client; the methods of the client rethrow a rejection  *)
(* as new Error(`Failed to ...: ${error.message}`); the catch block of the *)
(* tool returns a text result.  The two batch tools inspect each URL in a  *)
(* try block of its own.                                                   *)
(***************************************************************************)
RegistryNames == {toolRegistry[i].name : i \in 1..Len(toolRegistry)}

\* the URLs a batch tool is given
MaxBatchUrls == 2

StaticTools == {"search", "fetch"}
InlineAuthTools == {"list_properties"}
TwoQueryTools == {"get_performance_overview", "compare_search_periods"}
BatchTools == {"batch_url_inspection", "check_indexing_issues"}
\* catch (error) { // Skip URLs that can't be inspected }
SilentSkipTools == {"check_indexing_issues"}

\* a call of the googleapis client fulfils, or rejects with an Error or
\* with a value that has no message
UpstreamError == Error("Error", <<"quota exceeded">>)
UpstreamOutcomes == {NoException, UpstreamError, ThrownNull}

\* catch (error: any) { throw new Error(`Failed to ...: ${error.message}`) }
ClientRethrow(exc) ==
  IF exc.kind = "null"
    THEN Error("TypeError", <<"Cannot read properties of null (reading 'message')">>)
    ELSE Error("Error", <<"Failed: ">> \o exc.message)

TextResult(text) == ToolResult(<<[type |-> "text", text |-> text]>>)

\* the catch block of a tool that rethrows instead of answering
ToolRethrow(name, exc) == Throws(exc)
\* catch (error: any) { return { content: [{ type: "text",
\*   text: `Error ...: ${error.message}` }] } }
ToolCatch(name, exc) ==
  IF exc.kind = "null"
    THEN Throws(Error("TypeError", <<"Cannot read properties of null (reading 'message')">>))
    ELSE Returns(TextResult(<<"Error in ", name, ": ">> \o exc.message))

\* the text returned when there is no client: client.error of
\* getAuthenticatedClient, or the texts list_properties has of its own
AuthErrorText(name, configured) ==
  IF ~configured
    THEN IF name \in InlineAuthTools
           THEN <<"Authentication not configured. Please set up OAuth:", "steps">>
           ELSE <<"Authentication not configured. Please set up OAuth credentials.">>
    ELSE <<"Not authenticated. Please visit /auth to authenticate with Google.">>

\* search and fetch: the result built from the static documents
ToolStatic ==
  /\ tool.pc = "static"
  /\ tool' = [tool EXCEPT !.pc = "settled",
                          !.outcome = Returns(TextResult(<<"documents">>))]
  /\ UNCHANGED <<single, conns, reg, auth, oauth, race, seo, calc>>

\* the token logic is over: if ('error' in client) return its text; a
\* rejection goes to the catch block; else the first call of the client
ToolAuthSettles ==
  /\ tool.pc = "auth"
  /\ auth.pc \in {"returned", "threw"}
  /\ tool' =
       IF auth.result = "error"
         THEN [tool EXCEPT !.pc = "settled",
                 !.outcome = Returns(TextResult(AuthErrorText(tool.name,
                                                              auth.configured)))]
       ELSE IF auth.result = "throw"
         THEN [tool EXCEPT !.pc = "settled",
                 !.failures = Append(@, auth.exc),
                 !.outcome = ToolCatch(tool.name, auth.exc)]
         ELSE [tool EXCEPT !.pc = "api", !.calls = 1]
  /\ UNCHANGED <<single, conns, reg, auth, oauth, race, seo, calc>>

\* a call of the client settles: on success the next call or the report; on
\* a rejection the catch block of the tool, or in a batch tool the catch
\* block of the URL and then the next URL
ApiSettles(exc) ==
  /\ tool.pc = "api"
  /\ LET thrown == ClientRethrow(exc)
         caught == exc # NoException /\ tool.name \in BatchTools
         output == IF caught /\ tool.name \notin SilentSkipTools
                     THEN tool.output \o <<"Error: ">> \o thrown.message
                     ELSE tool.output
         failures == IF exc # NoException THEN Append(tool.failures, exc)
                     ELSE tool.failures
     IN  tool' =
           IF exc # NoException /\ ~caught
             THEN [tool EXCEPT !.pc = "settled", !.failures = failures,
                     !.outcome = ToolCatch(tool.name, thrown)]
           ELSE IF tool.calls < tool.todo
             THEN [tool EXCEPT !.calls = @ + 1, !.failures = failures,
                     !.output = output]
             ELSE [tool EXCEPT !.pc = "settled", !.failures = failures,
                     !.output = output,
                     !.outcome = Returns(TextResult(<<"report">> \o output))]
  /\ UNCHANGED <<single, conns, reg, auth, oauth, race, seo, calc>>

\* the upstream calls of a tool when none fails
Todo(name) ==
  IF name \in BatchTools THEN 1..MaxBatchUrls
  ELSE IF name \in TwoQueryTools THEN {2}
  ELSE {1}

ToolInit ==
  /\ HandlerInit /\ env = "envA" /\ conns = NoConns /\ reg = NoReg
  /\ oauth = NoOauth /\ race = NoRace /\ seo = NoSeo /\ calc = NoCalc
  /\ \/ /\ tool \in {[NoTool EXCEPT !.pc = "static", !.name = name] :
                         name \in StaticTools}
        /\ auth = NoAuth
     \/ /\ tool \in {[NoTool EXCEPT !.pc = "auth", !.name = name, !.todo = n] :
                         name \in RegistryNames \ StaticTools, n \in 1..MaxBatchUrls}
        /\ tool.todo \in Todo(tool.name)
        /\ auth \in {[NoAuth EXCEPT !.pc = "start", !.configured = cfg,
                                    !.kv = stored, !.now = StartTime] :
                        cfg \in BOOLEAN,
                        stored \in {[has |-> FALSE, tokens |-> NoTokens]}
                                    \cup {[has |-> TRUE, tokens |-> t] : t \in StoredTokens}}

ToolNext ==
  \/ Tick
  \/ \E found \in BOOLEAN : GetTokens(found)
  \/ CheckExpiry
  \/ \E outcome \in RefreshOutcomes : RefreshSettles(outcome)
  \/ \E stored \in BOOLEAN : StoreSettles(stored)
  \/ ToolStatic
  \/ ToolAuthSettles
  \/ \E exc \in UpstreamOutcomes : ApiSettles(exc)

ToolSpec == ToolInit /\ [][ToolNext]_vars

(***************************************************************************)
(* Two tool invocations for 'default_user' on one KV namespace.  Each runs *)
(* getAuthenticatedClient (or the same statements in list_properties); the *)
(* calls interleave at their awaits and nothing orders them.  The time is  *)
(* StartTime throughout.                                                   *)
(***************************************************************************)
\* the credentials two refresh calls are answered with
RaceRefreshOutcomes ==
  {[kind |-> "return", credentials |-> TokenData("new1", "r1", 4600000)],
   [kind |-> "return", credentials |-> TokenData("new2", "r1", 4600000)],
   [kind |-> "throw", credentials |-> NoTokens]}

\* kv.put(key, value): the value replaces the stored one
KvPut(stored, value) == value

\* const tokens = await tokenManager.getTokens('default_user')
RaceGetTokens(c) ==
  /\ race.callers[c].pc = "start"
  /\ race' = [race EXCEPT !.callers[c].pc = "check",
                          !.callers[c].tokens = race.kv]
  /\ UNCHANGED <<single, conns, reg, auth, oauth, tool, seo, calc>>

\* the expiry check with one refresh shared by the invocations: a caller
\* that finds a refresh of another caller under way or done makes none
RaceCheckExpiryCoalesced(c) ==
  /\ race.callers[c].pc = "check"
  /\ race' = IF /\ isTokenExpired(StartTime, race.callers[c].tokens.expiry_date)
                /\ \A d \in Callers \ {c} : race.callers[d].refreshCalls = 0
               THEN [race EXCEPT !.callers[c].pc = "refreshing",
                                 !.callers[c].refreshCalls = @ + 1]
               ELSE [race EXCEPT !.callers[c].pc = "returned"]
  /\ UNCHANGED <<single, conns, reg, auth, oauth, tool, seo, calc>>

\* if (client.isTokenExpired(tokens.expiry_date)) { ... newTokens = await
\* client.refreshAccessToken() ... } else { client.setCredentials(tokens) }
RaceCheckExpiry(c) ==
  /\ race.callers[c].pc = "check"
  /\ race' = IF isTokenExpired(StartTime, race.callers[c].tokens.expiry_date)
               THEN [race EXCEPT !.callers[c].pc = "refreshing",
                                 !.callers[c].refreshCalls = @ + 1]
               ELSE [race EXCEPT !.callers[c].pc = "returned"]
  /\ UNCHANGED <<single, conns, reg, auth, oauth, tool, seo, calc>>

\* refreshAccessToken settles; on success storeTokens is called
RaceRefreshSettles(c, outcome) ==
  /\ race.callers[c].pc = "refreshing"
  /\ race' = IF outcome.kind = "return"
               THEN [race EXCEPT !.callers[c].pc = "storing",
                                 !.callers[c].newTokens = outcome.credentials]
               ELSE [race EXCEPT !.callers[c].pc = "threw"]
  /\ UNCHANGED <<single, conns, reg, auth, oauth, tool, seo, calc>>

\* the store applies the kv.put of the caller, or the put rejects
RaceStoreSettles(c, stored) ==
  /\ race.callers[c].pc = "storing"
  /\ race' = IF stored
               THEN [race EXCEPT !.callers[c].pc = "returned",
                                 !.kv = KvPut(race.kv, race.callers[c].newTokens),
                                 !.writes = Append(@, [caller |-> c,
                                              value |-> race.callers[c].newTokens])]
               ELSE [race EXCEPT !.callers[c].pc = "threw"]
  /\ UNCHANGED <<single, conns, reg, auth, oauth, tool, seo, calc>>

RaceInit ==
  /\ HandlerInit /\ env = "envA" /\ conns = NoConns /\ reg = NoReg /\ auth = NoAuth
  /\ oauth = NoOauth /\ tool = NoTool /\ seo = NoSeo /\ calc = NoCalc
  /\ race \in {[NoRace EXCEPT !.kv = t,
                               !.callers = [c \in Callers |->
                                              [NoCaller EXCEPT !.pc = "start"]]] :
                  t \in StoredTokens}

RaceNext ==
  \/ \E c \in Callers : RaceGetTokens(c)
  \/ \E c \in Callers : RaceCheckExpiry(c)
  \/ \E c \in Callers, outcome \in RaceRefreshOutcomes : RaceRefreshSettles(c, outcome)
  \/ \E c \in Callers, stored \in BOOLEAN : RaceStoreSettles(c, stored)

RaceSpec == RaceInit /\ [][RaceNext]_vars

(***************************************************************************)
(* check_page_experience and get_coverage_report of seoAnalysisTools.ts,   *)
(* from the point where getAuthenticatedClient has given a client: the     *)
(* urls argument is split into the list of URLs and each URL is inspected  *)
(* in a try block of its own.  A string is a sequence of characters; the   *)
(* answer of inspectUrl depends on the page, the first character of the    *)
(* URL.                                                                    *)
(***************************************************************************)
\* the length of the urls arguments that are enumerated in full
MaxChars == 2
\* .slice(0, 10) and .slice(0, 25)
PageExperienceLimit == 10
CoverageLimit == 25

Chars == {"a", "b", " ", ",", "\n"}

\* a split on newlines only
IsNewline(ch) == ch = "\n"
\* /[\n,]/
IsSeparator(ch) == ch \in {"\n", ","}

\* urls.split(/[\n,]/)
RECURSIVE Split(_)
Split(str) ==
  IF \A k \in 1..Len(str) : ~IsSeparator(str[k])
    THEN <<str>>
    ELSE LET k == CHOOSE k \in 1..Len(str) :
                    /\ IsSeparator(str[k])
                    /\ \A j \in 1..(k - 1) : ~IsSeparator(str[j])
         IN  <<SubSeq(str, 1, k - 1)>> \o Split(SubSeq(str, k + 1, Len(str)))

\* u.trim()
RECURSIVE TrimStart(_)
TrimStart(u) ==
  IF u # <<>> /\ u[1] = " " THEN TrimStart(Tail(u)) ELSE u
RECURSIVE TrimEnd(_)
TrimEnd(u) ==
  IF u # <<>> /\ u[Len(u)] = " " THEN TrimEnd(SubSeq(u, 1, Len(u) - 1)) ELSE u
Trim(u) == TrimEnd(TrimStart(u))

\* .slice(0, n)
Slice(list, n) == SubSeq(list, 1, IF Len(list) < n THEN Len(list) ELSE n)

\* urls.split(/[\n,]/).map(u => u.trim()).filter(u => u).slice(0, limit)
UrlList(urls, limit) ==
  LET parts == Split(urls)
      trimmed == [k \in 1..Len(parts) |-> Trim(parts[k])]
  IN  Slice(SelectSeq(trimmed, LAMBDA u : u # <<>>), limit)

\* the limit of each tool
Limit(name) ==
  IF name = "check_page_experience" THEN PageExperienceLimit ELSE CoverageLimit

\* n entries, "a " and "b" in turn, separated by commas and newlines in
\* turn, with a blank entry before every fourth
RECURSIVE LongInput(_)
LongInput(n) ==
  IF n = 0 THEN <<>>
  ELSE LongInput(n - 1)
         \o (IF n = 1 THEN <<>>
             ELSE IF n % 4 = 0 THEN <<",", " ", "\n">>
             ELSE IF n % 2 = 0 THEN <<",">> ELSE <<"\n">>)
         \o (IF n % 2 = 0 THEN <<"b">> ELSE <<"a", " ">>)

UrlsArguments(name) ==
  UNION {[1..n -> Chars] : n \in 1..MaxChars}
  \cup {LongInput(n) : n \in (Limit(name) - 1)..(Limit(name) + 1)}

\* result.inspectionResult.indexStatusResult of a fulfilled inspectUrl ("" is
\* an absent field), a result without index status, and a rejection
IndexStatus(verdict, coverageState, pageFetchState, robotsTxtState) ==
  [kind |-> "return", hasIndexStatus |-> TRUE, verdict |-> verdict,
   coverageState |-> coverageState, pageFetchState |-> pageFetchState,
   robotsTxtState |-> robotsTxtState]
NoIndexStatus == [NoInspection EXCEPT !.kind = "return"]
InspectRejects == [NoInspection EXCEPT !.kind = "throw"]

Inspections ==
  {InspectRejects, NoIndexStatus,
   IndexStatus("PASS", "Submitted and indexed", "SUCCESSFUL", "ALLOWED"),
   IndexStatus("PASS", "", "", "BLOCKED"),
   IndexStatus("NEUTRAL", "Submitted and indexed", "SUCCESSFUL", "ALLOWED"),
   IndexStatus("FAIL", "Crawled - currently not indexed", "NOT_FOUND", "BLOCKED"),
   IndexStatus("NEUTRAL", "Crawled - currently not indexed", "NOT_FOUND", ""),
   IndexStatus("FAIL", "", "SERVER_ERROR", "ALLOWED"),
   IndexStatus("NEUTRAL", "Discovered - currently not indexed", "REDIRECT", "ALLOWED"),
   IndexStatus("NEUTRAL", "Crawled - currently not indexed", "SUCCESSFUL", "ALLOWED"),
   IndexStatus("NEUTRAL", "Discovered - currently not indexed", "", ""),
   IndexStatus("", "", "", "")}
\* check_page_experience reads other fields of the result: what matters to
\* its loop is whether inspectUrl fulfils
PageInspections ==
  {InspectRejects, IndexStatus("PASS", "Submitted and indexed", "SUCCESSFUL", "ALLOWED")}

\* coverageState?.includes('Crawled'), coverageState?.includes('Discovered')
IncludesCrawled(coverageState) ==
  coverageState = "Crawled - currently not indexed"
IncludesDiscovered(coverageState) ==
  coverageState = "Discovered - currently not indexed"

\* the if-chain on the index status of a URL
Classified(inspection) ==
  LET verdict == IF inspection.verdict # "" THEN inspection.verdict ELSE "UNKNOWN"
      coverageState == IF inspection.coverageState # ""
                         THEN inspection.coverageState ELSE "UNKNOWN"
      pageFetchState == IF inspection.pageFetchState # ""
                          THEN inspection.pageFetchState ELSE "UNKNOWN"
      robotsTxtState == IF inspection.robotsTxtState # ""
                          THEN inspection.robotsTxtState ELSE "ALLOWED"
  IN  IF verdict = "PASS" \/ coverageState = "Submitted and indexed"
        THEN <<"Indexed">>
      ELSE IF robotsTxtState = "BLOCKED" THEN <<"Blocked by robots.txt">>
      ELSE IF pageFetchState = "NOT_FOUND" THEN <<"Not found (404)">>
      ELSE IF pageFetchState = "SERVER_ERROR" THEN <<"Server error (5xx)">>
      ELSE IF pageFetchState = "REDIRECT" THEN <<"Redirect">>
      ELSE IF IncludesCrawled(coverageState) THEN <<"Crawled - not indexed">>
      ELSE IF IncludesDiscovered(coverageState) THEN <<"Discovered - not indexed">>
      ELSE <<"Other">>

\* the loop body without the continue after the push to Other: reading the
\* verdict of the absent index status throws and the catch block pushes too
PushedWithoutContinue(inspection) ==
  IF inspection.kind = "throw" THEN <<"Other">>
  ELSE IF ~inspection.hasIndexStatus THEN <<"Other", "Other">>
  ELSE Classified(inspection)
\* the categories one iteration of the loop of get_coverage_report pushes
\* the URL to, in the order of the pushes
Pushed(inspection) ==
  IF inspection.kind = "throw" THEN <<"Other">>
  ELSE IF ~inspection.hasIndexStatus THEN <<"Other">>
  ELSE Classified(inspection)

\* issues[category].push(url) for each category of the sequence
RECURSIVE PushAll(_, _, _)
PushAll(issues, categories, url) ==
  IF categories = <<>> THEN issues
  ELSE PushAll([issues EXCEPT ![Head(categories)] = Append(@, url)],
               Tail(categories), url)

\* the summary: URLs Analyzed / URLs Checked, Indexed, Not Indexed
Summary(state) ==
  [state EXCEPT !.pc = "done",
                !.analyzed = Len(state.urlList),
                !.indexed = Len(state.issues["Indexed"]),
                !.notIndexed = Len(state.urlList) - Len(state.issues["Indexed"])]

\* the list of URLs is built and the loop calls inspectUrl for the first
SeoSplit ==
  /\ seo.pc = "start"
  /\ LET urlList == UrlList(seo.urls, Limit(seo.name))
     IN  seo' = IF urlList = <<>>
                  THEN Summary([seo EXCEPT !.urlList = urlList])
                  ELSE [seo EXCEPT !.pc = "inspecting", !.urlList = urlList,
                                   !.i = 1, !.calls = <<urlList[1]>>]
  /\ UNCHANGED <<single, conns, reg, auth, oauth, tool, race, calc>>

\* await client.inspectUrl(site_url, url) settles: the body of the try block
\* or the catch block of the URL, then the next URL or the summary
SeoInspectSettles ==
  /\ seo.pc = "inspecting"
  /\ LET url == seo.urlList[seo.i]
         inspection == seo.world[url[1]]
         pushed == IF seo.name = "get_coverage_report" THEN Pushed(inspection)
                   ELSE <<>>
         after == [seo EXCEPT
                     !.report = Append(@, [url |-> url,
                                           kind |-> IF inspection.kind = "throw"
                                                      THEN "error" ELSE "inspected"]),
                     !.issues = PushAll(@, pushed, url),
                     !.pushed = Append(@, pushed)]
     IN  seo' = IF seo.i < Len(seo.urlList)
                  THEN [after EXCEPT !.i = @ + 1,
                                     !.calls = Append(@, seo.urlList[seo.i + 1])]
                  ELSE Summary(after)
  /\ UNCHANGED <<single, conns, reg, auth, oauth, tool, race, calc>>

SeoInit ==
  /\ HandlerInit /\ env = "envA" /\ conns = NoConns /\ reg = NoReg /\ auth = NoAuth
  /\ oauth = NoOauth /\ tool = NoTool /\ race = NoRace /\ calc = NoCalc
  /\ \/ seo \in {[NoSeo EXCEPT !.pc = "start", !.name = "check_page_experience",
                                !.urls = urls, !.world = world] :
                    urls \in UrlsArguments("check_page_experience"),
                    world \in [Pages -> PageInspections]}
     \/ seo \in {[NoSeo EXCEPT !.pc = "start", !.name = "get_coverage_report",
                                !.urls = urls, !.world = world] :
                    urls \in UrlsArguments("get_coverage_report"),
                    world \in [Pages -> Inspections]}

SeoNext ==
  \/ SeoSplit
  \/ SeoInspectSettles

SeoSpec == SeoInit /\ [][SeoNext]_vars

(***************************************************************************)
(* The numeric helpers of gscHelper.ts.  A position is given in tenths     *)
(* (15 is position 1.5) and a click-through rate in thousandths (25 is     *)
(* 0.025); a percentage change is the exact quotient of two integers.      *)
(***************************************************************************)
\* the largest position, and the largest amount of clicks or impressions
MaxPosition == 25
MaxAmount == 5

Positions == (0 - 10)..(10 * MaxPosition)
Amounts == (0 - MaxAmount)..MaxAmount

\* getExpectedCTR with < in the place of <=
getExpectedCTRStrict(position) ==
  IF position < 10 THEN 300
  ELSE IF position < 20 THEN 150
  ELSE IF position < 30 THEN 100
  ELSE IF position < 40 THEN 70
  ELSE IF position < 50 THEN 50
  ELSE IF position < 60 THEN 40
  ELSE IF position < 70 THEN 30
  ELSE IF position < 80 THEN 25
  ELSE IF position < 90 THEN 20
  ELSE IF position < 100 THEN 15
  ELSE IF position < 200 THEN 10
  ELSE 5
\* if (position <= 1) return 0.30; ... if (position <= 20) return 0.01;
\* return 0.005
getExpectedCTR(position) ==
  IF position <= 10 THEN 300
  ELSE IF position <= 20 THEN 150
  ELSE IF position <= 30 THEN 100
  ELSE IF position <= 40 THEN 70
  ELSE IF position <= 50 THEN 50
  ELSE IF position <= 60 THEN 40
  ELSE IF position <= 70 THEN 30
  ELSE IF position <= 80 THEN 25
  ELSE IF position <= 90 THEN 20
  ELSE IF position <= 100 THEN 15
  ELSE IF position <= 200 THEN 10
  ELSE 5

\* calculatePercentageChange measuring from after to before
calculatePercentageChangeBackwards(before, after) ==
  IF before = 0 THEN Ratio(IF after > 0 THEN 100 ELSE 0, 1)
  ELSE Ratio((before - after) * 100, before)
\* if (before === 0) return after > 0 ? 100 : 0;
\* return ((after - before) / before) * 100
calculatePercentageChange(before, after) ==
  IF before = 0 THEN Ratio(IF after > 0 THEN 100 ELSE 0, 1)
  ELSE Ratio((after - before) * 100, before)

CallGetExpectedCTR ==
  /\ calc.pc = "start" /\ calc.fn = "getExpectedCTR"
  /\ calc' = [calc EXCEPT !.pc = "done", !.ctr = getExpectedCTR(calc.position)]
  /\ UNCHANGED <<single, conns, reg, auth, oauth, tool, race, seo>>

CallCalculatePercentageChange ==
  /\ calc.pc = "start" /\ calc.fn = "calculatePercentageChange"
  /\ calc' = [calc EXCEPT !.pc = "done",
                          !.change = calculatePercentageChange(calc.before, calc.after)]
  /\ UNCHANGED <<single, conns, reg, auth, oauth, tool, race, seo>>

CalcInit ==
  /\ HandlerInit /\ env = "envA" /\ conns = NoConns /\ reg = NoReg /\ auth = NoAuth
  /\ oauth = NoOauth /\ tool = NoTool /\ race = NoRace /\ seo = NoSeo
  /\ \/ calc \in {[NoCalc EXCEPT !.pc = "start", !.fn = "getExpectedCTR",
                                 !.position = p] : p \in Positions}
     \/ calc \in {[NoCalc EXCEPT !.pc = "start", !.fn = "calculatePercentageChange",
                                 !.before = b, !.after = a] :
                     b \in Amounts, a \in Amounts}

CalcNext ==
  \/ CallGetExpectedCTR
  \/ CallCalculatePercentageChange

CalcSpec == CalcInit /\ [][CalcNext]_vars

(***************************************************************************)
(* Properties.                                                             *)
(***************************************************************************)
Descriptor(name) ==
  toolRegistry[CHOOSE i \in 1..Len(toolRegistry) : toolRegistry[i].name = name]

\* processMessage was called and has returned or rejected
ProcessMessageOver == pmCalls = 1 /\ pc \in {"catch", "finally", "done"}
IsToolsCall == message.t = "object" /\ message.method = S("tools/call")
NamesRegisteredTool ==
  message.params.name.t = "string" /\ message.params.name.s \in RegistryNames
\* the own properties of the arguments the caller sent ({} when absent)
SentArguments ==
  IF message.params.arguments.t = "object" THEN message.params.arguments.o
  ELSE EmptyObject

\* C1: for every inbound message that is an object (any method; id a number,
\* a string or absent), processMessage hands exactly one response to
\* writer.write, and that response carries the inbound id, or no id when the
\* message has none.
C1_OneResponseEchoingId ==
  (ProcessMessageOver /\ message.t = "object") =>
     /\ Len(pmWrites) = 1
     /\ pmWrites[1].hasId = (message.id # U)
     /\ pmWrites[1].id = message.id

C3_ThrowBecomesErrorResponse ==
  (settled.kind = "throw" /\ pc \in {"catch", "finally", "done"}) =>
     /\ Len(pmWrites) = 1
     /\ pmWrites[1].hasError /\ ~pmWrites[1].hasResult
     /\ pmWrites[1].id = message.id
     /\ pmWrites[1].error.code = InternalErrorCode
     /\ (settled.exc.message # <<>> =>
           pmWrites[1].error.message = settled.exc.message)
     /\ (pmThrew => stream = "errored")
     /\ (pc = "done" => closeCalls = 1)

\* the schema declares a field without .optional() or .default() that the
\* arguments do not have
MissingRequired(schema, o) ==
  \E i \in 1..Len(schema) : schema[i].wrap = "none" /\ schema[i].key \notin DOMAIN o
\* the arguments give a declared field a value of another primitive type
WrongType(schema, o) ==
  \E i \in 1..Len(schema) :
     /\ schema[i].key \in DOMAIN o
     /\ o[schema[i].key].t # (IF schema[i].inner = "number" THEN "number" ELSE "string")

\* C4: a tools/call whose arguments lack a required field of the named tool's
\* schema, or give a field a value of the wrong type (a numeric string for a
\* number), never reaches execute, and its response is a validation error.
C4_ValidationGate ==
  (/\ pmCalls = 1 /\ IsToolsCall /\ NamesRegisteredTool
   /\ LET schema == Descriptor(message.params.name.s).schema
      IN  MissingRequired(schema, SentArguments) \/ WrongType(schema, SentArguments))
  => /\ executeCalls = <<>>
     /\ pc # "executing"
     /\ \A i \in 1..Len(pmWrites) :
           /\ pmWrites[i].hasError /\ ~pmWrites[i].hasResult
           /\ pmWrites[i].error.type = "ZodError"
     /\ (ProcessMessageOver => Len(pmWrites) = 1)

C4_Witness ==
  /\ pc = "done" /\ stream = "closed"
  /\ IsToolsCall /\ message.params.name = S("get_search_analytics")
  /\ DOMAIN SentArguments = {"site_url", "days"}
  /\ SentArguments["site_url"] = S("https://a.com")
  /\ SentArguments["days"] = S("7")
  /\ pmWrites[1].error.type = "ZodError"
  /\ executeCalls = <<>>

\* C5: a tools/call naming a tool that is not in the registry, or naming no
\* tool, yields an error response whose message names the requested tool,
\* and no execute is invoked.
C5_UnknownTool ==
  (pmCalls = 1 /\ IsToolsCall /\ ~NamesRegisteredTool)
  => /\ executeCalls = <<>>
     /\ pc # "executing"
     /\ \A i \in 1..Len(pmWrites) :
           /\ pmWrites[i].hasError /\ ~pmWrites[i].hasResult
           /\ Len(pmWrites[i].error.message) = 2
           /\ pmWrites[i].error.message[2] =
                (IF message.params.name.t = "string"
                   THEN message.params.name.s ELSE "undefined")
     /\ (ProcessMessageOver => Len(pmWrites) = 1)

C5_Witness ==
  /\ pc = "done" /\ stream = "closed"
  /\ IsToolsCall /\ message.params.name = S("nope")
  /\ events[2].payload.error.message = <<"Tool not found: ", "nope">>
  /\ executeCalls = <<>>

\* C6: a tools/call naming a registered tool with arguments that pass
\* validation invokes that tool's execute exactly once, with the
\* connection's context and the validated arguments; no other execute is
\* invoked, and initialize, tools/list and every other message invoke none.
C6_ExecuteExactlyOnce ==
  pmCalls = 1 =>
    LET valid ==
          /\ IsToolsCall /\ NamesRegisteredTool
          /\ SchemaParse(Descriptor(message.params.name.s).schema,
                         ArgsOrEmpty(message.params.arguments)).ok
    IN  IF valid
          THEN executeCalls =
                 <<[tool |-> message.params.name.s,
                    params |-> [env |-> env],
                    args |-> SchemaParse(Descriptor(message.params.name.s).schema,
                                         ArgsOrEmpty(message.params.arguments)).value]>>
          ELSE executeCalls = <<>>

C6_Witness ==
  /\ pc = "done" /\ stream = "closed" /\ env = "envB"
  /\ IsToolsCall /\ message.params.name = S("get_search_analytics")
  /\ Len(executeCalls) = 1
  /\ executeCalls[1].tool = "get_search_analytics"
  /\ executeCalls[1].params = [env |-> "envB"]
  /\ settled.kind = "return"
  /\ events[2].payload.hasResult

\* C7 as stated: on every exit path, the failure of a stream write included,
\* the stream ends Closed.
C7_ClosedOnEveryExit == pc = "done" => stream = "closed"

\* C7 as amended: once a connection is open, writer.close() is called exactly
\* once on every exit path whenever the execute call settles; the stream
\* then is Closed unless the peer has cancelled it, in which case the writes
\* and close reject and the stream stays errored.  Only the peer errors it.
C7_CloseCalledOnEveryExit ==
  /\ [](pc = "done" => (closeCalls = 1 /\ stream \in {"closed", "errored"}))
  /\ [](pc # "done" => closeCalls = 0)
  /\ [][(stream # "errored" /\ stream' = "errored") => UNCHANGED pc]_vars
  /\ (pc \in {"keepalive", "read", "dispatch"}) ~> (pc \in {"executing", "done"})
  /\ (pc \in {"write", "catch", "finally"}) ~> (pc = "done")

C7_Witness ==
  /\ pc = "done" /\ closeCalls = 1
  /\ pmThrew /\ pending = StreamError
  /\ stream = "errored" /\ unhandled

DataEvents == {i \in 1..Len(events) : events[i].kind = "data"}

TransportErrorPushed ==
  /\ Len(events) = 2 /\ events[1] = KeepAliveEvent /\ events[2].kind = "data"
  /\ events[2].payload.hasError /\ ~events[2].payload.hasResult
  /\ ~events[2].payload.hasId

ToolListPushed ==
  /\ Len(events) = 2 /\ events[1] = KeepAliveEvent /\ events[2].kind = "data"
  /\ events[2].payload.hasResult /\ ~events[2].payload.hasError
  /\ events[2].payload.result.kind = "tools"
  /\ [i \in 1..Len(events[2].payload.result.tools) |->
        events[2].payload.result.tools[i].name]
     = [i \in 1..Len(toolRegistry) |-> toolRegistry[i].name]

\* C9 as stated: a request without a body gets the synthesized tools/list
\* exchange, and a request with a body has that body dispatched.
C9_NoBodyMeansToolsList ==
  (pc = "done" /\ stream = "closed") =>
     /\ request.body.kind = "none" =>
          (pmCalls = 1 /\ message.method = S("tools/list") /\ ToolListPushed)
     /\ request.body.kind = "json" =>
          (pmCalls = 1 /\ message = request.body.json)

\* C9 as amended: a request whose method is not POST, with or without a
\* body, gets the synthesized tools/list message with id 1 dispatched, and
\* the one response with the tool list is pushed before the close; the body
\* of a POST request is parsed and dispatched as the message it contains,
\* and a POST request without a body takes the parse-failure path.
C9_NonPostMeansToolsList ==
  /\ (pmCalls = 1 /\ request.method # "POST") =>
        message = Message(N(1), S("tools/list"), NoParams)
  /\ (pmCalls = 1 /\ request.method = "POST") =>
        (request.body.kind = "json" /\ message = request.body.json)
  /\ (pc = "done" /\ stream = "closed" /\ request.method # "POST") =>
        /\ pmCalls = 1
        /\ ToolListPushed
        /\ events[2].payload.hasId /\ events[2].payload.id = N(1)
  /\ (pc = "done" /\ stream = "closed" /\ request.method = "POST") =>
        IF request.body.kind = "json"
          THEN pmCalls = 1
          ELSE pmCalls = 0 /\ TransportErrorPushed

C9_Witness ==
  /\ pc = "done" /\ stream = "closed"
  /\ request.method = "PUT" /\ request.body.kind = "json"
  /\ message.method = S("tools/list")
  /\ ToolListPushed

\* C10: when the body of the request cannot be parsed, exactly one error
\* event without id is written, neither the dispatcher nor a tool is invoked,
\* close is called, and no exception reaches the hosting runtime.
C10_ParseFailureContained ==
  (pc = "done" /\ request.method = "POST" /\ request.body.kind = "malformed") =>
     /\ pmCalls = 0 /\ executeCalls = <<>>
     /\ closeCalls = 1
     /\ Cardinality(DataEvents) <= 1
     /\ stream = "closed" => TransportErrorPushed
     /\ ~unhandled

\* the names of the registry array, in source order
RegistryOrder == [i \in 1..Len(toolRegistry) |-> toolRegistry[i].name]
\* the names of the tool list of a tools/list result, in the order listed
ListedNames(result) == [i \in 1..Len(result.tools) |-> result.tools[i].name]

\* C11: on every connection, whatever the connections before it and beside
\* it dispatched (initialize, tools/list, tools/call), the response to
\* tools/list holds the descriptors of the registry array in registration
\* order, search and fetch first, none moved, left out or merged, always the
\* same list; and the Map of a handler stays the one init built.
C11_StableToolList ==
  \A c \in Conns :
     /\ conns[c].pc # "idle" =>
          [i \in 1..Len(conns[c].tools) |-> conns[c].tools[i].name] = RegistryOrder
     /\ (conns[c].message.method = S("tools/list") /\ conns[c].writes # <<>>) =>
          /\ Len(conns[c].writes) = 1
          /\ conns[c].writes[1].hasResult /\ ~conns[c].writes[1].hasError
          /\ conns[c].writes[1].result.kind = "tools"
          /\ ListedNames(conns[c].writes[1].result) = RegistryOrder
          /\ ListedNames(conns[c].writes[1].result)[1] = "search"
          /\ ListedNames(conns[c].writes[1].result)[2] = "fetch"
          /\ \A d \in Conns :
                (conns[d].message.method = S("tools/list") /\ conns[d].writes # <<>>) =>
                   conns[d].writes[1].result = conns[c].writes[1].result

C11_Witness ==
  \E c \in Conns, d \in Conns :
     /\ c # d
     /\ conns[c].pc = "done" /\ conns[c].stream = "closed"
     /\ conns[c].message.method = S("tools/list") /\ conns[c].afterCall
     /\ conns[c].events[2].payload.result.kind = "tools"
     /\ conns[d].pc = "done" /\ conns[d].stream = "closed"
     /\ conns[d].request.method = "GET"
     /\ conns[d].events[2].payload.result.kind = "tools"

\* C12: in every call of execute, each field the tool's schema declares with
\* a default is present in the arguments: with the declared default when the
\* caller left it out, and with the caller's value unchanged when sent.
C12_DefaultsApplied ==
  \A i \in 1..Len(executeCalls) :
     LET schema == Descriptor(executeCalls[i].tool).schema
         args == executeCalls[i].args
     IN  \A j \in 1..Len(schema) :
            schema[j].wrap = "default" =>
              /\ schema[j].key \in DOMAIN args
              /\ args[schema[j].key] =
                   (IF schema[j].key \in DOMAIN SentArguments
                      THEN SentArguments[schema[j].key]
                      ELSE schema[j].def)

C12_Witness ==
  /\ Len(executeCalls) = 1
  /\ executeCalls[1].tool = "get_search_analytics"
  /\ DOMAIN SentArguments = {"site_url", "days"}
  /\ SentArguments["days"] = N(7)
  /\ executeCalls[1].args["days"] = N(7)
  /\ executeCalls[1].args["dimensions"] = S("query")
  /\ pc = "done" /\ stream = "closed"

RecognizedMethods == {S("initialize"), S("tools/list"), S("tools/call")}

\* C13: a message whose method is none of initialize, tools/list and
\* tools/call, a message without method included, gets one error response
\* with code -32603 whose message and details name the method that was
\* sent, and no execute is invoked.
C13_UnknownMethod ==
  (pmCalls = 1 /\ message.t # "null" /\ message.method \notin RecognizedMethods)
  => /\ executeCalls = <<>>
     /\ pc # "executing"
     /\ \A i \in 1..Len(pmWrites) :
           /\ pmWrites[i].hasError /\ ~pmWrites[i].hasResult
           /\ pmWrites[i].error.code = InternalErrorCode
           /\ pmWrites[i].error.message = <<"Unknown method: ", ToStr(message.method)>>
           /\ pmWrites[i].error.details =
                <<"Error", ": ", "Unknown method: ", ToStr(message.method)>>
     /\ (ProcessMessageOver => Len(pmWrites) = 1)

C13_Witness ==
  /\ pc = "done" /\ stream = "closed"
  /\ message.t = "object" /\ message.method = S("bogus")
  /\ events[2].payload.error.message = <<"Unknown method: ", "bogus">>
  /\ events[2].payload.id = message.id
  /\ executeCalls = <<>>

\* the array holds two descriptors of one name
HasDuplicateName(registry) ==
  \E i \in 1..Len(registry), j \in 1..Len(registry) :
     i < j /\ registry[i].name = registry[j].name

\* C14: building the registry from descriptors of which two have the same
\* name fails with a duplicate-name error; every name is present exactly
\* once, and the entry of a name is the first descriptor registered under
\* it, never a later one.
C14_DuplicateNameRejected ==
  reg.pc \in {"built", "got"} =>
     /\ HasDuplicateName(reg.input) => reg.error.name = "DuplicateNameError"
     /\ \A i \in 1..Len(reg.tools), j \in 1..Len(reg.tools) :
           reg.tools[i].name = reg.tools[j].name => i = j
     /\ \A i \in 1..Len(reg.tools) :
           \A k \in 1..Len(reg.input) :
              reg.input[k].name = reg.tools[i].name => reg.tools[i].definition <= k

\* the keys of the fields of a schema that are declared without .optional()
\* and without .default(), in schema order
PlainKeys(schema) ==
  LET plain == SelectSeq(schema, LAMBDA f : f.wrap = "none")
  IN  [i \in 1..Len(plain) |-> plain[i].key]

\* C15: in every tools/list response, the `required` list of each tool holds
\* exactly the parameters of its schema that are neither optional nor have a
\* default, in schema order; a parameter that is optional or has a default
\* is not in it.
C15_RequiredFields ==
  \A i \in 1..Len(pmWrites) :
     pmWrites[i].result.kind = "tools" =>
       /\ Len(pmWrites[i].result.tools) = Len(toolRegistry)
       /\ \A t \in 1..Len(toolRegistry) :
             /\ pmWrites[i].result.tools[t].name = toolRegistry[t].name
             /\ pmWrites[i].result.tools[t].inputSchema.required
                  = PlainKeys(toolRegistry[t].schema)

C15_Witness ==
  /\ pc = "done" /\ stream = "closed"
  /\ message.method = S("tools/list")
  /\ events[2].payload.result.kind = "tools"
  /\ events[2].payload.result.tools[7].name = "get_search_analytics"
  /\ events[2].payload.result.tools[7].inputSchema.required = <<"site_url">>
  /\ events[2].payload.result.tools[10].name = "compare_search_periods"
  /\ Len(events[2].payload.result.tools[10].inputSchema.required) = 5

\* the protocol type name of the type a field is declared with, under its
\* .optional(), .default() and .refine() wrappers; an enum is none of the
\* five recognized types
ProtocolType(f) == IF f.inner = "number" THEN "number" ELSE "string"

\* C16: in every tools/list response, each parameter of each tool is listed
\* with the protocol type name of its declared type, parameters declared
\* optional or with a default included: the numeric days parameter with
\* default 28 is listed as "number".
C16_DeclaredTypeListed ==
  \A i \in 1..Len(pmWrites) :
     pmWrites[i].result.kind = "tools" =>
       \A t \in 1..Len(toolRegistry) :
          LET properties == pmWrites[i].result.tools[t].inputSchema.properties
          IN  /\ Len(properties) = Len(toolRegistry[t].schema)
              /\ \A j \in 1..Len(properties) :
                    /\ properties[j].key = toolRegistry[t].schema[j].key
                    /\ properties[j].type = ProtocolType(toolRegistry[t].schema[j])

\* the keys of the arguments sent that the schema does not declare
UndeclaredKeys(schema, o) == DOMAIN o \ {schema[j].key : j \in 1..Len(schema)}
\* the arguments sent, restricted to the keys the schema declares
DeclaredPart(schema, o) ==
  [k \in DOMAIN o \cap {schema[j].key : j \in 1..Len(schema)} |-> o[k]]

\* C17: a tools/call whose arguments hold fields the tool's schema does not
\* declare, and whose declared fields are valid, passes validation: execute
\* is called once, and every undeclared field is in the arguments execute
\* receives, with the value that was sent.
C17_ExtraFieldsPassedThrough ==
  (/\ pmCalls = 1 /\ IsToolsCall /\ NamesRegisteredTool
   /\ message.params.arguments.t \in {"object", "undefined", "null"}
   /\ SchemaParse(Descriptor(message.params.name.s).schema,
                  [t |-> "object",
                   o |-> DeclaredPart(Descriptor(message.params.name.s).schema,
                                      SentArguments)]).ok)
  => /\ Len(executeCalls) = 1
     /\ \A k \in UndeclaredKeys(Descriptor(message.params.name.s).schema, SentArguments) :
           /\ k \in DOMAIN executeCalls[1].args
           /\ executeCalls[1].args[k] = SentArguments[k]

\* the tools of the README's list "Available Tools (26 Total)"
ReadmeTools ==
  {"search", "fetch",
   "list_properties", "add_site", "delete_site", "get_site_details",
   "get_search_analytics", "get_performance_overview",
   "get_advanced_search_analytics", "compare_search_periods",
   "get_search_by_page_query",
   "inspect_url_enhanced", "batch_url_inspection", "check_indexing_issues",
   "get_sitemaps", "submit_sitemap", "list_sitemaps_enhanced",
   "get_sitemap_details", "delete_sitemap",
   "find_high_potential_keywords", "check_page_experience",
   "get_coverage_report", "analyze_backlinks", "spot_content_opportunities",
   "analyze_regional_device_performance", "analyze_algorithm_impact"}

\* C18: every tool of the README's list is registered in the handler of
\* every connection, is listed by tools/list, and a tools/call naming it is
\* not answered with "Tool not found".
C18_ReadmeToolsRegistered ==
  \A c \in Conns :
     /\ conns[c].pc # "idle" => \A n \in ReadmeTools : MapHas(conns[c].tools, n)
     /\ \A i \in 1..Len(conns[c].writes) :
           /\ conns[c].writes[i].result.kind = "tools" =>
                ReadmeTools \subseteq SeqToSet(ListedNames(conns[c].writes[i].result))
           /\ (/\ conns[c].message.method = S("tools/call")
               /\ conns[c].message.params.name.s \in ReadmeTools)
              => ~(/\ conns[c].writes[i].hasError
                   /\ conns[c].writes[i].error.message[1] = "Tool not found: ")

\* the payload processMessage writes for a message when the connection runs
\* alone on a handler of its own with context e, the execute call (if one is
\* made) settling as outcome
SoloPayload(e, msg, outcome) ==
  LET route == Route(init(toolRegistry), e, msg)
  IN  IF route.calls # <<>>
        THEN IF outcome.kind = "return"
               THEN Serialize([NewResponse(msg) EXCEPT !.result = outcome.result])
               ELSE Serialize(Catch(NewResponse(msg), outcome.exc).response)
      ELSE IF route.exc # NoException
        THEN Serialize(Catch(NewResponse(msg), route.exc).response)
      ELSE Serialize([NewResponse(msg) EXCEPT !.result = route.result])

\* C19: with two connections served side by side, under every interleaving
\* of their steps, each connection writes the response it would write when
\* run alone (for the same settling of its execute call), its execute calls
\* carry its own context, its registry stays the one init built, and a step
\* of one connection changes nothing of the other.
C19_ConnectionsIndependent ==
  /\ [](\A c \in Conns :
          /\ conns[c].pc # "idle" => conns[c].tools = init(toolRegistry)
          /\ \A i \in 1..Len(conns[c].writes) :
                conns[c].writes[i] =
                  SoloPayload(conns[c].env, conns[c].message, conns[c].settled)
          /\ \A i \in 1..Len(conns[c].calls) :
                conns[c].calls[i].params = [env |-> conns[c].env])
  /\ [][\A c \in Conns :
          /\ (conns[c].pc # "idle" /\ conns'[c].pc # "idle") =>
                (conns'[c].env = conns[c].env /\ conns'[c].tools = conns[c].tools)
          /\ conns'[c] # conns[c] =>
                \A d \in Conns \ {c} : conns'[d] = conns[d]]_vars

C19_Witness ==
  /\ conns[1].pc = "executing" /\ conns[1].env = "envA"
  /\ conns[1].calls[1].params = [env |-> "envA"]
  /\ conns[2].pc = "finally" /\ conns[2].env = "envB"
  /\ conns[2].settled.kind = "return"
  /\ conns[2].calls[1].params = [env |-> "envB"]
  /\ conns[2].writes[1].hasResult /\ conns[2].writes[1].id = S("a")

FiveMinutes == 5 * 60 * 1000

\* C20: when getAuthenticatedClient returns a client, and the time at its
\* expiry check was at or past the stored expiry_date minus five minutes, it
\* has called refresh exactly once, has written the refreshed tokens under
\* the key of the same user, the store holds them, and the client carries
\* them; when the stored token was not expired, it has called no refresh,
\* written nothing, and the client carries the stored tokens.  Refresh is
\* never called twice, and never for a token that is not expired.
C20_RefreshOnExpiry ==
  /\ auth.refreshCalls <= 1
  /\ Len(auth.puts) <= auth.refreshCalls
  /\ (/\ auth.pc \in {"refreshing", "storing", "returned", "threw"}
      /\ auth.result # "error" /\ auth.exc # KvGetError) =>
        (auth.refreshCalls = 1) = (auth.checkedAt >= auth.tokens.expiry_date - FiveMinutes)
  /\ (auth.pc = "returned" /\ auth.result = "client") =>
        IF auth.checkedAt >= auth.tokens.expiry_date - FiveMinutes
          THEN /\ auth.refreshCalls = 1
               /\ auth.puts = <<[key |-> TokenKey("default_user"),
                                 value |-> auth.newTokens]>>
               /\ auth.kv = [has |-> TRUE, tokens |-> auth.newTokens]
               /\ auth.credentials = auth.newTokens
               /\ auth.newTokens.access_token = "new"
          ELSE /\ auth.refreshCalls = 0
               /\ auth.puts = <<>>
               /\ auth.kv = [has |-> TRUE, tokens |-> auth.tokens]
               /\ auth.credentials = auth.tokens

C20_Witness ==
  /\ auth.pc = "returned" /\ auth.result = "client"
  /\ auth.checkedAt = auth.tokens.expiry_date - FiveMinutes
  /\ auth.refreshCalls = 1
  /\ auth.credentials.access_token = "new"
  /\ auth.kv.tokens.access_token = "new"

\* the storeTokens calls of the callbacks that presented a state
PutsFor(state) == {i \in DOMAIN oauth.tokenPuts : oauth.tokenPuts[i].state = state}

\* C21: the storeTokens calls made for a state are at most as many as the
\* /auth requests that issued it (so an unknown state authorizes none and an
\* issued one a single write, also for two concurrent callbacks), and a
\* callback with an error parameter or without code or state makes none.
C21_StateAuthorizesOneWrite ==
  /\ \A state \in States : Cardinality(PutsFor(state)) <= oauth.issued[state]
  /\ \A i \in DOMAIN oauth.tokenPuts :
        LET cb == oauth.cbs[oauth.tokenPuts[i].cb]
        IN  cb.error = "" /\ cb.code # "" /\ cb.state # ""

\* the tools/call message that led to the call of execute, and the payload
\* processMessage writes once execute has settled
ToolCall(name) == Message(N(7), S("tools/call"), Params(S(name), UndefArgs))
Completed(msg, outcome) ==
  IF outcome.kind = "return"
    THEN Serialize([NewResponse(msg) EXCEPT !.result = outcome.result])
    ELSE Serialize(Catch(NewResponse(msg), outcome.exc).response)

\* C22: when the OAuth configuration is missing, or the lookup answers that
\* no token is stored, getAuthenticatedClient returns the error value, has
\* called no refresh and written nothing, the tool has made no upstream
\* call, and a tool that called it returns the error text as its result:
\* the response has result and no error.
C22_NoClientIsAToolResult ==
  (/\ auth.pc \in {"returned", "threw"}
   /\ ~auth.configured \/ (~auth.kv.has /\ auth.exc = NoException)) =>
     /\ auth.pc = "returned" /\ auth.result = "error"
     /\ auth.refreshCalls = 0 /\ auth.puts = <<>>
     /\ tool.calls = 0
     /\ (tool.pc = "settled" /\ tool.name \notin InlineAuthTools) =>
           /\ tool.outcome =
                Returns(TextResult(
                  IF ~auth.configured
                    THEN <<"Authentication not configured. Please set up OAuth credentials.">>
                    ELSE <<"Not authenticated. Please visit /auth to authenticate with Google.">>))
           /\ Completed(ToolCall(tool.name), tool.outcome).hasResult
           /\ ~Completed(ToolCall(tool.name), tool.outcome).hasError

C22_Witness ==
  /\ tool.pc = "settled" /\ tool.name = "get_sitemaps"
  /\ auth.configured /\ ~auth.kv.has /\ auth.result = "error"
  /\ Completed(ToolCall(tool.name), tool.outcome).hasResult

\* the message of the rejection is part of the text
Describes(text, exc) ==
  \E i \in 1..Len(text) :
    /\ i + Len(exc.message) - 1 <= Len(text)
    /\ SubSeq(text, i, i + Len(exc.message) - 1) = exc.message

\* the execute call that met a failure returned one text block, and the
\* response has result and no error
TextResultOnFailure ==
  /\ tool.outcome.kind = "return"
  /\ Len(tool.outcome.result.content) = 1
  /\ tool.outcome.result.content[1].type = "text"
  /\ Completed(ToolCall(tool.name), tool.outcome).hasResult
  /\ ~Completed(ToolCall(tool.name), tool.outcome).hasError

\* C25 (as stated): a registered tool whose token lookup, token refresh or
\* upstream call failed answers with a result holding one text block that
\* describes every failure it met, and never with an error envelope.
C25_FailureDescribedInTextResult ==
  (tool.pc = "settled" /\ tool.failures # <<>>) =>
     /\ TextResultOnFailure
     /\ \A i \in DOMAIN tool.failures :
           Describes(tool.outcome.result.content[1].text, tool.failures[i])

\* C25 (amended): the answer is a result holding one text block and never an
\* error envelope; the text describes every failure the tool met, except
\* in check_indexing_issues, which skips a URL whose inspection failed.
C25_FailureBecomesTextResult ==
  (tool.pc = "settled" /\ tool.failures # <<>>) =>
     /\ TextResultOnFailure
     /\ (tool.name \notin SilentSkipTools \/ auth.result = "throw") =>
           \A i \in DOMAIN tool.failures :
             Describes(tool.outcome.result.content[1].text, tool.failures[i])

C25_Witness ==
  /\ tool.pc = "settled" /\ tool.name = "get_search_analytics"
  /\ auth.refreshCalls = 1 /\ auth.result = "client"
  /\ tool.failures = <<UpstreamError>>
  /\ tool.outcome.kind = "return"

\* C23: the events of a connection come in one order.  Once the body has
\* been read (or the tools/list message built) the keep-alive comment is
\* the first event of the stream, and anything pushed at all starts with
\* it; while execute is pending nothing but the keep-alive has been pushed,
\* and a pushed response of a tools/call that ran execute follows the
\* settling of execute; a closed stream holds the keep-alive and then the
\* one response or transport-error event; and no step pushes an event or
\* calls execute once the stream is closed.
C23_EventsInOrder ==
  /\ [](/\ (message # NoMessage \/ events # <<>>) =>
              (events # <<>> /\ events[1] = KeepAliveEvent)
        /\ pc = "executing" => (events = <<KeepAliveEvent>> /\ settled = NotSettled)
        /\ (executeCalls # <<>> /\ Len(events) >= 2) => settled # NotSettled
        /\ stream = "closed" =>
              /\ pc = "done" /\ Len(events) = 2
              /\ events[1] = KeepAliveEvent /\ events[2] # KeepAliveEvent
              /\ (executeCalls # <<>> => settled # NotSettled))
  /\ [][stream = "closed" =>
          (events' = events /\ executeCalls' = executeCalls /\ stream' = stream)]_vars

C23_Witness ==
  /\ stream = "closed" /\ executeCalls # <<>> /\ settled.kind = "return"
  /\ events = <<KeepAliveEvent, DataEvent(Serialize(response))>>

\* C24: every invocation that read an expired token has issued a refresh
\* call of its own, whatever the other invocation did, and only such an
\* invocation writes; the store holds the value of the write applied last.
C24_RefreshNotSerialized ==
  /\ \A c \in Callers :
        /\ race.callers[c].pc \in {"refreshing", "storing", "returned", "threw"} =>
              (race.callers[c].refreshCalls = 1) =
                 (StartTime >= race.callers[c].tokens.expiry_date - FiveMinutes)
        /\ race.callers[c].refreshCalls <= 1
  /\ \A i \in DOMAIN race.writes :
        race.callers[race.writes[i].caller].refreshCalls = 1
  /\ race.writes # <<>> => race.kv = race.writes[Len(race.writes)].value

\* both invocations read the expired token, both refreshed, both wrote
C24_Witness ==
  /\ \A c \in Callers :
        /\ race.callers[c].pc = "returned"
        /\ race.callers[c].tokens.access_token = "old"
        /\ race.callers[c].refreshCalls = 1
  /\ race.writes = <<[caller |-> 2, value |-> TokenData("new1", "r1", 4600000)],
                     [caller |-> 1, value |-> TokenData("new2", "r1", 4600000)]>>
  /\ race.kv.access_token = "new2"

SeparatorPositions(str) == {k \in 1..Len(str) : str[k] \in {"\n", ","}}
RunStarts(str) == {1} \cup {k + 1 : k \in SeparatorPositions(str)}
RunEnd(str, start) ==
  (CHOOSE k \in start..(Len(str) + 1) :
     /\ k \in SeparatorPositions(str) \cup {Len(str) + 1}
     /\ \A j \in start..(k - 1) : j \notin SeparatorPositions(str)) - 1
Stripped(u) ==
  LET inked == {k \in 1..Len(u) : u[k] # " "}
  IN  IF inked = {} THEN <<>>
      ELSE SubSeq(u, CHOOSE k \in inked : \A j \in inked : k <= j,
                     CHOOSE k \in inked : \A j \in inked : k >= j)
Entry(str, start) == Stripped(SubSeq(str, start, RunEnd(str, start)))
EntryStarts(str) == {start \in RunStarts(str) : Entry(str, start) # <<>>}
\* the entries in their order in the argument
Entries(str) ==
  LET starts == EntryStarts(str)
  IN  [k \in 1..Cardinality(starts) |->
         Entry(str, CHOOSE start \in starts :
                      Cardinality({t \in starts : t < start}) = k - 1)]

\* the calls made so far are the first entries of the argument, in order,
\* at most max of them, and all of them once the tool is done
InspectsEntriesInOrder(max) ==
  LET entries == Entries(seo.urls)
  IN  /\ Len(seo.calls) <= max
      /\ Len(seo.calls) <= Len(entries)
      /\ seo.calls = SubSeq(entries, 1, Len(seo.calls))
      /\ seo.pc = "done" =>
            Len(seo.calls) = IF Len(entries) < max THEN Len(entries) ELSE max

\* C27: check_page_experience calls inspectUrl once for each of the first
\* 10 non-empty entries of urls split on newlines and commas, in their
\* order; each settled call has its entry in the report, an error entry
\* exactly when the call failed, and the calls go on after a failure.
C27_PageExperienceInspectsEach ==
  (seo.name = "check_page_experience" /\ seo.pc \in {"inspecting", "done"}) =>
    /\ InspectsEntriesInOrder(10)
    /\ Len(seo.report) = IF seo.pc = "done" THEN Len(seo.calls)
                         ELSE Len(seo.calls) - 1
    /\ \A k \in DOMAIN seo.report :
          /\ seo.report[k].url = seo.calls[k]
          /\ (seo.report[k].kind = "error") =
               (seo.world[seo.calls[k][1]].kind = "throw")

C27_Witness ==
  /\ seo.name = "check_page_experience" /\ seo.pc = "done"
  /\ Cardinality(EntryStarts(seo.urls)) = 11
  /\ Len(seo.calls) = 10
  /\ seo.report[1].kind = "error" /\ seo.report[2].kind = "inspected"
  /\ seo.calls[1] = <<"a">> /\ seo.calls[2] = <<"b">>

\* the URLs in the categories other than Indexed
IssueCount(issues) ==
  Len(issues["Crawled - not indexed"]) + Len(issues["Discovered - not indexed"])
  + Len(issues["Blocked by robots.txt"]) + Len(issues["Redirect"])
  + Len(issues["Not found (404)"]) + Len(issues["Server error (5xx)"])
  + Len(issues["Other"])

\* C28: get_coverage_report analyzes the first 25 entries at most; each
\* analyzed URL is pushed to one category, to Other when its inspection
\* throws or has no index status; the sizes of the categories sum to the
\* URLs analyzed so far, and in the summary Indexed plus Not Indexed is the
\* number of URLs analyzed, Not Indexed being the size of the other
\* categories.
C28_CoveragePartition ==
  (seo.name = "get_coverage_report" /\ seo.pc \in {"inspecting", "done"}) =>
    /\ InspectsEntriesInOrder(25)
    /\ \A k \in DOMAIN seo.pushed :
          /\ Len(seo.pushed[k]) = 1
          /\ seo.pushed[k][1] \in CoverageCategories
          /\ \E j \in DOMAIN seo.issues[seo.pushed[k][1]] :
                seo.issues[seo.pushed[k][1]][j] = seo.urlList[k]
          /\ (\/ seo.world[seo.urlList[k][1]].kind = "throw"
              \/ ~seo.world[seo.urlList[k][1]].hasIndexStatus) =>
                seo.pushed[k] = <<"Other">>
    /\ Len(seo.issues["Indexed"]) + IssueCount(seo.issues) = Len(seo.pushed)
    /\ seo.pc = "done" =>
          /\ Len(seo.pushed) = Len(seo.urlList)
          /\ seo.analyzed = Len(seo.urlList)
          /\ seo.indexed + seo.notIndexed = seo.analyzed
          /\ seo.indexed = Len(seo.issues["Indexed"])
          /\ seo.notIndexed = IssueCount(seo.issues)

C28_Witness ==
  /\ seo.name = "get_coverage_report" /\ seo.pc = "done"
  /\ Cardinality(EntryStarts(seo.urls)) = 26
  /\ seo.analyzed = 25 /\ seo.indexed = 13 /\ seo.notIndexed = 12
  /\ Len(seo.issues["Other"]) = 12
  /\ seo.world["b"].kind = "throw"

\* C29: the rate returned for a position is at least the rate of every
\* larger position; it is 0.30 up to position 1, 0.15 above 1 up to 2,
\* 0.10 above 2 up to 3, 0.01 above 10 up to 20 and 0.005 above 20.
C29_ExpectedCTRMonotone ==
  (calc.pc = "done" /\ calc.fn = "getExpectedCTR") =>
    /\ \A q \in Positions : calc.position <= q => calc.ctr >= getExpectedCTR(q)
    /\ \A q \in Positions : q <= calc.position => getExpectedCTR(q) >= calc.ctr
    /\ calc.position <= 10 => calc.ctr = 300
    /\ (10 < calc.position /\ calc.position <= 20) => calc.ctr = 150
    /\ (20 < calc.position /\ calc.position <= 30) => calc.ctr = 100
    /\ (100 < calc.position /\ calc.position <= 200) => calc.ctr = 10
    /\ calc.position > 200 => calc.ctr = 5

C29_Witness ==
  /\ calc.pc = "done" /\ calc.fn = "getExpectedCTR"
  /\ calc.position = 15 /\ calc.ctr = 150

Sign(n) == IF n > 0 THEN 1 ELSE IF n < 0 THEN 0 - 1 ELSE 0

\* C30: the change is 100 for before = 0 and after > 0, 0 for before = 0
\* and after <= 0, and else the quotient of (after - before) * 100 by
\* before; for before > 0 it has the sign of after - before.
C30_PercentageChange ==
  (calc.pc = "done" /\ calc.fn = "calculatePercentageChange") =>
    /\ calc.change.den # 0
    /\ (calc.before = 0 /\ calc.after > 0) => calc.change.num = 100 * calc.change.den
    /\ (calc.before = 0 /\ calc.after <= 0) => calc.change.num = 0
    /\ calc.before # 0 =>
          calc.change.num * calc.before = (calc.after - calc.before) * 100 * calc.change.den
    /\ calc.before > 0 =>
          Sign(calc.change.num) * Sign(calc.change.den) = Sign(calc.after - calc.before)

C30_Witness ==
  /\ calc.pc = "done" /\ calc.fn = "calculatePercentageChange"
  /\ calc.before = 4 /\ calc.after = 3
  /\ calc.change = Ratio(0 - 100, 4)

====
